---- MODULE Spec2Model ----
(***************************************************************************)
(* A model of textbooks/scrape_syllabus.py: the syllabus scraper that      *)
(* turns saved syllabus pages into rows of a raw textbook CSV.             *)
(*                                                                         *)
(* A Python str is modelled as the sequence of its Unicode code points, so *)
(* that comparison, sorting, trimming, case folding and substring search   *)
(* are computed as CPython computes them.  A string literal of the source  *)
(* is written as its code points, with the text in a comment before it.    *)
(* A parsed page (the BeautifulSoup object) is modelled by what the        *)
(* scraper's queries return on it: see Soup below.                         *)
(***************************************************************************)
EXTENDS Integers, Sequences, FiniteSets, TLC

VARIABLES
    pc,           \* where main (or the function under test) stands
    target,       \* parsed.input: a directory of pages or a single file
    idx,          \* position of main's loop in iter_html_files(parsed.input)
    all_records,  \* main's all_records (the record list the annotators mutate)
    output,       \* the file at parsed.output
    err,          \* the exception that ended the run, "" when none
    arg,          \* the argument of the function under test
    ret           \* what the function under test returned

vars == <<pc, target, idx, all_records, output, err, arg, ret>>

(***************************************************************************)
(* Python str operations.                                                  *)
(***************************************************************************)

\* str.isspace(): the code points str.strip(), str.split() and the regular
\* expression class \s treat as whitespace.
WhiteSpace ==
    {9, 10, 11, 12, 13, 28, 29, 30, 31, 32, 133, 160, 5760, 8232, 8233, 8239, 8287, 12288}
        \cup (8192..8202)

\* None, as a value no str equals.
None == <<-1>>

Min(S) == CHOOSE x \in S : \A y \in S : x <= y

Max(S) == CHOOSE x \in S : \A y \in S : x >= y

\* s.strip()
Strip(s) ==
    LET keep == {i \in 1..Len(s) : s[i] \notin WhiteSpace}
    IN  IF keep = {} THEN <<>> ELSE SubSeq(s, Min(keep), Max(keep))

(***************************************************************************)
(* str.lower, with the case tables of the interpreter's Unicode database   *)
(* (14.0.0).  A tuple <<lo, hi, step, delta>> of LowerRanges says that the *)
(* characters lo, lo + step, ..., hi lower to themselves plus delta.       *)
(***************************************************************************)

LowerRanges ==
    { <<65, 90, 1, 32>>, <<192, 214, 1, 32>>, <<216, 222, 1, 32>>, <<256, 302, 2, 1>>, <<306, 310, 2, 1>>, <<313, 327, 2, 1>>,
      <<330, 374, 2, 1>>, <<376, 376, 1, -121>>, <<377, 381, 2, 1>>, <<385, 385, 1, 210>>, <<386, 388, 2, 1>>, <<390, 390, 1, 206>>,
      <<391, 391, 1, 1>>, <<393, 394, 1, 205>>, <<395, 395, 1, 1>>, <<398, 398, 1, 79>>, <<399, 399, 1, 202>>, <<400, 400, 1, 203>>,
      <<401, 401, 1, 1>>, <<403, 403, 1, 205>>, <<404, 404, 1, 207>>, <<406, 406, 1, 211>>, <<407, 407, 1, 209>>, <<408, 408, 1, 1>>,
      <<412, 412, 1, 211>>, <<413, 413, 1, 213>>, <<415, 415, 1, 214>>, <<416, 420, 2, 1>>, <<422, 422, 1, 218>>, <<423, 423, 1, 1>>,
      <<425, 425, 1, 218>>, <<428, 428, 1, 1>>, <<430, 430, 1, 218>>, <<431, 431, 1, 1>>, <<433, 434, 1, 217>>, <<435, 437, 2, 1>>,
      <<439, 439, 1, 219>>, <<440, 440, 1, 1>>, <<444, 444, 1, 1>>, <<452, 452, 1, 2>>, <<453, 453, 1, 1>>, <<455, 455, 1, 2>>,
      <<456, 456, 1, 1>>, <<458, 458, 1, 2>>, <<459, 475, 2, 1>>, <<478, 494, 2, 1>>, <<497, 497, 1, 2>>, <<498, 500, 2, 1>>,
      <<502, 502, 1, -97>>, <<503, 503, 1, -56>>, <<504, 542, 2, 1>>, <<544, 544, 1, -130>>, <<546, 562, 2, 1>>, <<570, 570, 1, 10795>>,
      <<571, 571, 1, 1>>, <<573, 573, 1, -163>>, <<574, 574, 1, 10792>>, <<577, 577, 1, 1>>, <<579, 579, 1, -195>>, <<580, 580, 1, 69>>,
      <<581, 581, 1, 71>>, <<582, 590, 2, 1>>, <<880, 882, 2, 1>>, <<886, 886, 1, 1>>, <<895, 895, 1, 116>>, <<902, 902, 1, 38>>,
      <<904, 906, 1, 37>>, <<908, 908, 1, 64>>, <<910, 911, 1, 63>>, <<913, 929, 1, 32>>, <<931, 939, 1, 32>>, <<975, 975, 1, 8>>,
      <<984, 1006, 2, 1>>, <<1012, 1012, 1, -60>>, <<1015, 1015, 1, 1>>, <<1017, 1017, 1, -7>>, <<1018, 1018, 1, 1>>, <<1021, 1023, 1, -130>>,
      <<1024, 1039, 1, 80>>, <<1040, 1071, 1, 32>>, <<1120, 1152, 2, 1>>, <<1162, 1214, 2, 1>>, <<1216, 1216, 1, 15>>, <<1217, 1229, 2, 1>>,
      <<1232, 1326, 2, 1>>, <<1329, 1366, 1, 48>>, <<4256, 4293, 1, 7264>>, <<4295, 4295, 1, 7264>>, <<4301, 4301, 1, 7264>>, <<5024, 5103, 1, 38864>>,
      <<5104, 5109, 1, 8>>, <<7312, 7354, 1, -3008>>, <<7357, 7359, 1, -3008>>, <<7680, 7828, 2, 1>>, <<7838, 7838, 1, -7615>>, <<7840, 7934, 2, 1>>,
      <<7944, 7951, 1, -8>>, <<7960, 7965, 1, -8>>, <<7976, 7983, 1, -8>>, <<7992, 7999, 1, -8>>, <<8008, 8013, 1, -8>>, <<8025, 8031, 2, -8>>,
      <<8040, 8047, 1, -8>>, <<8072, 8079, 1, -8>>, <<8088, 8095, 1, -8>>, <<8104, 8111, 1, -8>>, <<8120, 8121, 1, -8>>, <<8122, 8123, 1, -74>>,
      <<8124, 8124, 1, -9>>, <<8136, 8139, 1, -86>>, <<8140, 8140, 1, -9>>, <<8152, 8153, 1, -8>>, <<8154, 8155, 1, -100>>, <<8168, 8169, 1, -8>>,
      <<8170, 8171, 1, -112>>, <<8172, 8172, 1, -7>>, <<8184, 8185, 1, -128>>, <<8186, 8187, 1, -126>>, <<8188, 8188, 1, -9>>, <<8486, 8486, 1, -7517>>,
      <<8490, 8490, 1, -8383>>, <<8491, 8491, 1, -8262>>, <<8498, 8498, 1, 28>>, <<8544, 8559, 1, 16>>, <<8579, 8579, 1, 1>>, <<9398, 9423, 1, 26>>,
      <<11264, 11311, 1, 48>>, <<11360, 11360, 1, 1>>, <<11362, 11362, 1, -10743>>, <<11363, 11363, 1, -3814>>, <<11364, 11364, 1, -10727>>, <<11367, 11371, 2, 1>>,
      <<11373, 11373, 1, -10780>>, <<11374, 11374, 1, -10749>>, <<11375, 11375, 1, -10783>>, <<11376, 11376, 1, -10782>>, <<11378, 11378, 1, 1>>, <<11381, 11381, 1, 1>>,
      <<11390, 11391, 1, -10815>>, <<11392, 11490, 2, 1>>, <<11499, 11501, 2, 1>>, <<11506, 11506, 1, 1>>, <<42560, 42604, 2, 1>>, <<42624, 42650, 2, 1>>,
      <<42786, 42798, 2, 1>>, <<42802, 42862, 2, 1>>, <<42873, 42875, 2, 1>>, <<42877, 42877, 1, -35332>>, <<42878, 42886, 2, 1>>, <<42891, 42891, 1, 1>>,
      <<42893, 42893, 1, -42280>>, <<42896, 42898, 2, 1>>, <<42902, 42920, 2, 1>>, <<42922, 42922, 1, -42308>>, <<42923, 42923, 1, -42319>>, <<42924, 42924, 1, -42315>>,
      <<42925, 42925, 1, -42305>>, <<42926, 42926, 1, -42308>>, <<42928, 42928, 1, -42258>>, <<42929, 42929, 1, -42282>>, <<42930, 42930, 1, -42261>>, <<42931, 42931, 1, 928>>,
      <<42932, 42946, 2, 1>>, <<42948, 42948, 1, -48>>, <<42949, 42949, 1, -42307>>, <<42950, 42950, 1, -35384>>, <<42951, 42953, 2, 1>>, <<42960, 42960, 1, 1>>,
      <<42966, 42968, 2, 1>>, <<42997, 42997, 1, 1>>, <<65313, 65338, 1, 32>>, <<66560, 66599, 1, 40>>, <<66736, 66771, 1, 40>>, <<66928, 66964, 2, 39>>,
      <<66929, 66929, 1, 39>>, <<66931, 66931, 1, 39>>, <<66933, 66933, 1, 39>>, <<66935, 66935, 1, 39>>, <<66937, 66937, 1, 39>>, <<66941, 66941, 1, 39>>,
      <<66943, 66943, 1, 39>>, <<66945, 66945, 1, 39>>, <<66947, 66947, 1, 39>>, <<66949, 66949, 1, 39>>, <<66951, 66951, 1, 39>>, <<66953, 66953, 1, 39>>,
      <<66957, 66957, 1, 39>>, <<66959, 66959, 1, 39>>, <<66961, 66961, 1, 39>>, <<66965, 66965, 1, 39>>, <<68736, 68786, 1, 64>>, <<71840, 71871, 1, 32>>,
      <<93760, 93791, 1, 32>>, <<125184, 125217, 1, 34>> }

CaseIgnorableRanges ==
    { <<39, 39>>, <<46, 46>>, <<58, 58>>, <<94, 94>>, <<96, 96>>, <<168, 168>>, <<173, 173>>, <<175, 175>>, <<180, 180>>, <<183, 184>>,
      <<688, 879>>, <<884, 885>>, <<890, 890>>, <<900, 901>>, <<903, 903>>, <<1155, 1161>>, <<1369, 1369>>, <<1375, 1375>>, <<1425, 1469>>, <<1471, 1471>>,
      <<1473, 1474>>, <<1476, 1477>>, <<1479, 1479>>, <<1524, 1524>>, <<1536, 1541>>, <<1552, 1562>>, <<1564, 1564>>, <<1600, 1600>>, <<1611, 1631>>, <<1648, 1648>>,
      <<1750, 1757>>, <<1759, 1768>>, <<1770, 1773>>, <<1807, 1807>>, <<1809, 1809>>, <<1840, 1866>>, <<1958, 1968>>, <<2027, 2037>>, <<2042, 2042>>, <<2045, 2045>>,
      <<2070, 2093>>, <<2137, 2139>>, <<2184, 2184>>, <<2192, 2193>>, <<2200, 2207>>, <<2249, 2306>>, <<2362, 2362>>, <<2364, 2364>>, <<2369, 2376>>, <<2381, 2381>>,
      <<2385, 2391>>, <<2402, 2403>>, <<2417, 2417>>, <<2433, 2433>>, <<2492, 2492>>, <<2497, 2500>>, <<2509, 2509>>, <<2530, 2531>>, <<2558, 2558>>, <<2561, 2562>>,
      <<2620, 2620>>, <<2625, 2626>>, <<2631, 2632>>, <<2635, 2637>>, <<2641, 2641>>, <<2672, 2673>>, <<2677, 2677>>, <<2689, 2690>>, <<2748, 2748>>, <<2753, 2757>>,
      <<2759, 2760>>, <<2765, 2765>>, <<2786, 2787>>, <<2810, 2815>>, <<2817, 2817>>, <<2876, 2876>>, <<2879, 2879>>, <<2881, 2884>>, <<2893, 2893>>, <<2901, 2902>>,
      <<2914, 2915>>, <<2946, 2946>>, <<3008, 3008>>, <<3021, 3021>>, <<3072, 3072>>, <<3076, 3076>>, <<3132, 3132>>, <<3134, 3136>>, <<3142, 3144>>, <<3146, 3149>>,
      <<3157, 3158>>, <<3170, 3171>>, <<3201, 3201>>, <<3260, 3260>>, <<3263, 3263>>, <<3270, 3270>>, <<3276, 3277>>, <<3298, 3299>>, <<3328, 3329>>, <<3387, 3388>>,
      <<3393, 3396>>, <<3405, 3405>>, <<3426, 3427>>, <<3457, 3457>>, <<3530, 3530>>, <<3538, 3540>>, <<3542, 3542>>, <<3633, 3633>>, <<3636, 3642>>, <<3654, 3662>>,
      <<3761, 3761>>, <<3764, 3772>>, <<3782, 3782>>, <<3784, 3789>>, <<3864, 3865>>, <<3893, 3893>>, <<3895, 3895>>, <<3897, 3897>>, <<3953, 3966>>, <<3968, 3972>>,
      <<3974, 3975>>, <<3981, 3991>>, <<3993, 4028>>, <<4038, 4038>>, <<4141, 4144>>, <<4146, 4151>>, <<4153, 4154>>, <<4157, 4158>>, <<4184, 4185>>, <<4190, 4192>>,
      <<4209, 4212>>, <<4226, 4226>>, <<4229, 4230>>, <<4237, 4237>>, <<4253, 4253>>, <<4348, 4348>>, <<4957, 4959>>, <<5906, 5908>>, <<5938, 5939>>, <<5970, 5971>>,
      <<6002, 6003>>, <<6068, 6069>>, <<6071, 6077>>, <<6086, 6086>>, <<6089, 6099>>, <<6103, 6103>>, <<6109, 6109>>, <<6155, 6159>>, <<6211, 6211>>, <<6277, 6278>>,
      <<6313, 6313>>, <<6432, 6434>>, <<6439, 6440>>, <<6450, 6450>>, <<6457, 6459>>, <<6679, 6680>>, <<6683, 6683>>, <<6742, 6742>>, <<6744, 6750>>, <<6752, 6752>>,
      <<6754, 6754>>, <<6757, 6764>>, <<6771, 6780>>, <<6783, 6783>>, <<6823, 6823>>, <<6832, 6862>>, <<6912, 6915>>, <<6964, 6964>>, <<6966, 6970>>, <<6972, 6972>>,
      <<6978, 6978>>, <<7019, 7027>>, <<7040, 7041>>, <<7074, 7077>>, <<7080, 7081>>, <<7083, 7085>>, <<7142, 7142>>, <<7144, 7145>>, <<7149, 7149>>, <<7151, 7153>>,
      <<7212, 7219>>, <<7222, 7223>>, <<7288, 7293>>, <<7376, 7378>>, <<7380, 7392>>, <<7394, 7400>>, <<7405, 7405>>, <<7412, 7412>>, <<7416, 7417>>, <<7468, 7530>>,
      <<7544, 7544>>, <<7579, 7679>>, <<8125, 8125>>, <<8127, 8129>>, <<8141, 8143>>, <<8157, 8159>>, <<8173, 8175>>, <<8189, 8190>>, <<8203, 8207>>, <<8216, 8217>>,
      <<8228, 8228>>, <<8231, 8231>>, <<8234, 8238>>, <<8288, 8292>>, <<8294, 8303>>, <<8305, 8305>>, <<8319, 8319>>, <<8336, 8348>>, <<8400, 8432>>, <<11388, 11389>>,
      <<11503, 11505>>, <<11631, 11631>>, <<11647, 11647>>, <<11744, 11775>>, <<11823, 11823>>, <<12293, 12293>>, <<12330, 12333>>, <<12337, 12341>>, <<12347, 12347>>, <<12441, 12446>>,
      <<12540, 12542>>, <<40981, 40981>>, <<42232, 42237>>, <<42508, 42508>>, <<42607, 42610>>, <<42612, 42621>>, <<42623, 42623>>, <<42652, 42655>>, <<42736, 42737>>, <<42752, 42785>>,
      <<42864, 42864>>, <<42888, 42890>>, <<42994, 42996>>, <<43000, 43001>>, <<43010, 43010>>, <<43014, 43014>>, <<43019, 43019>>, <<43045, 43046>>, <<43052, 43052>>, <<43204, 43205>>,
      <<43232, 43249>>, <<43263, 43263>>, <<43302, 43309>>, <<43335, 43345>>, <<43392, 43394>>, <<43443, 43443>>, <<43446, 43449>>, <<43452, 43453>>, <<43471, 43471>>, <<43493, 43494>>,
      <<43561, 43566>>, <<43569, 43570>>, <<43573, 43574>>, <<43587, 43587>>, <<43596, 43596>>, <<43632, 43632>>, <<43644, 43644>>, <<43696, 43696>>, <<43698, 43700>>, <<43703, 43704>>,
      <<43710, 43711>>, <<43713, 43713>>, <<43741, 43741>>, <<43756, 43757>>, <<43763, 43764>>, <<43766, 43766>>, <<43867, 43871>>, <<43881, 43883>>, <<44005, 44005>>, <<44008, 44008>>,
      <<44013, 44013>>, <<64286, 64286>>, <<64434, 64450>>, <<65024, 65039>>, <<65043, 65043>>, <<65056, 65071>>, <<65106, 65106>>, <<65109, 65109>>, <<65279, 65279>>, <<65287, 65287>>,
      <<65294, 65294>>, <<65306, 65306>>, <<65342, 65342>>, <<65344, 65344>>, <<65392, 65392>>, <<65438, 65439>>, <<65507, 65507>>, <<65529, 65531>>, <<66045, 66045>>, <<66272, 66272>>,
      <<66422, 66426>>, <<67456, 67461>>, <<67463, 67504>>, <<67506, 67514>>, <<68097, 68099>>, <<68101, 68102>>, <<68108, 68111>>, <<68152, 68154>>, <<68159, 68159>>, <<68325, 68326>>,
      <<68900, 68903>>, <<69291, 69292>>, <<69446, 69456>>, <<69506, 69509>>, <<69633, 69633>>, <<69688, 69702>>, <<69744, 69744>>, <<69747, 69748>>, <<69759, 69761>>, <<69811, 69814>>,
      <<69817, 69818>>, <<69821, 69821>>, <<69826, 69826>>, <<69837, 69837>>, <<69888, 69890>>, <<69927, 69931>>, <<69933, 69940>>, <<70003, 70003>>, <<70016, 70017>>, <<70070, 70078>>,
      <<70089, 70092>>, <<70095, 70095>>, <<70191, 70193>>, <<70196, 70196>>, <<70198, 70199>>, <<70206, 70206>>, <<70367, 70367>>, <<70371, 70378>>, <<70400, 70401>>, <<70459, 70460>>,
      <<70464, 70464>>, <<70502, 70508>>, <<70512, 70516>>, <<70712, 70719>>, <<70722, 70724>>, <<70726, 70726>>, <<70750, 70750>>, <<70835, 70840>>, <<70842, 70842>>, <<70847, 70848>>,
      <<70850, 70851>>, <<71090, 71093>>, <<71100, 71101>>, <<71103, 71104>>, <<71132, 71133>>, <<71219, 71226>>, <<71229, 71229>>, <<71231, 71232>>, <<71339, 71339>>, <<71341, 71341>>,
      <<71344, 71349>>, <<71351, 71351>>, <<71453, 71455>>, <<71458, 71461>>, <<71463, 71467>>, <<71727, 71735>>, <<71737, 71738>>, <<71995, 71996>>, <<71998, 71998>>, <<72003, 72003>>,
      <<72148, 72151>>, <<72154, 72155>>, <<72160, 72160>>, <<72193, 72202>>, <<72243, 72248>>, <<72251, 72254>>, <<72263, 72263>>, <<72273, 72278>>, <<72281, 72283>>, <<72330, 72342>>,
      <<72344, 72345>>, <<72752, 72758>>, <<72760, 72765>>, <<72767, 72767>>, <<72850, 72871>>, <<72874, 72880>>, <<72882, 72883>>, <<72885, 72886>>, <<73009, 73014>>, <<73018, 73018>>,
      <<73020, 73021>>, <<73023, 73029>>, <<73031, 73031>>, <<73104, 73105>>, <<73109, 73109>>, <<73111, 73111>>, <<73459, 73460>>, <<78896, 78904>>, <<92912, 92916>>, <<92976, 92982>>,
      <<92992, 92995>>, <<94031, 94031>>, <<94095, 94111>>, <<94176, 94177>>, <<94179, 94180>>, <<110576, 110579>>, <<110581, 110587>>, <<110589, 110590>>, <<113821, 113822>>, <<113824, 113827>>,
      <<118528, 118573>>, <<118576, 118598>>, <<119143, 119145>>, <<119155, 119170>>, <<119173, 119179>>, <<119210, 119213>>, <<119362, 119364>>, <<121344, 121398>>, <<121403, 121452>>, <<121461, 121461>>,
      <<121476, 121476>>, <<121499, 121503>>, <<121505, 121519>>, <<122880, 122886>>, <<122888, 122904>>, <<122907, 122913>>, <<122915, 122916>>, <<122918, 122922>>, <<123184, 123197>>, <<123566, 123566>>,
      <<123628, 123631>>, <<125136, 125142>>, <<125252, 125259>>, <<127995, 127999>>, <<917505, 917505>>, <<917536, 917631>>, <<917760, 917999>> }

CasedRanges ==
    { <<65, 90>>, <<97, 122>>, <<170, 170>>, <<181, 181>>, <<186, 186>>, <<192, 214>>, <<216, 246>>, <<248, 442>>, <<444, 447>>, <<452, 659>>,
      <<661, 687>>, <<880, 883>>, <<886, 887>>, <<891, 893>>, <<895, 895>>, <<902, 902>>, <<904, 906>>, <<908, 908>>, <<910, 929>>, <<931, 1013>>,
      <<1015, 1153>>, <<1162, 1327>>, <<1329, 1366>>, <<1376, 1416>>, <<4256, 4293>>, <<4295, 4295>>, <<4301, 4301>>, <<4304, 4346>>, <<4349, 4351>>, <<5024, 5109>>,
      <<5112, 5117>>, <<7296, 7304>>, <<7312, 7354>>, <<7357, 7359>>, <<7424, 7467>>, <<7531, 7543>>, <<7545, 7578>>, <<7680, 7957>>, <<7960, 7965>>, <<7968, 8005>>,
      <<8008, 8013>>, <<8016, 8023>>, <<8025, 8025>>, <<8027, 8027>>, <<8029, 8029>>, <<8031, 8061>>, <<8064, 8116>>, <<8118, 8124>>, <<8126, 8126>>, <<8130, 8132>>,
      <<8134, 8140>>, <<8144, 8147>>, <<8150, 8155>>, <<8160, 8172>>, <<8178, 8180>>, <<8182, 8188>>, <<8450, 8450>>, <<8455, 8455>>, <<8458, 8467>>, <<8469, 8469>>,
      <<8473, 8477>>, <<8484, 8484>>, <<8486, 8486>>, <<8488, 8488>>, <<8490, 8493>>, <<8495, 8500>>, <<8505, 8505>>, <<8508, 8511>>, <<8517, 8521>>, <<8526, 8526>>,
      <<8544, 8575>>, <<8579, 8580>>, <<9398, 9449>>, <<11264, 11387>>, <<11390, 11492>>, <<11499, 11502>>, <<11506, 11507>>, <<11520, 11557>>, <<11559, 11559>>, <<11565, 11565>>,
      <<42560, 42605>>, <<42624, 42651>>, <<42786, 42863>>, <<42865, 42887>>, <<42891, 42894>>, <<42896, 42954>>, <<42960, 42961>>, <<42963, 42963>>, <<42965, 42969>>, <<42997, 42998>>,
      <<43002, 43002>>, <<43824, 43866>>, <<43872, 43880>>, <<43888, 43967>>, <<64256, 64262>>, <<64275, 64279>>, <<65313, 65338>>, <<65345, 65370>>, <<66560, 66639>>, <<66736, 66771>>,
      <<66776, 66811>>, <<66928, 66938>>, <<66940, 66954>>, <<66956, 66962>>, <<66964, 66965>>, <<66967, 66977>>, <<66979, 66993>>, <<66995, 67001>>, <<67003, 67004>>, <<68736, 68786>>,
      <<68800, 68850>>, <<71840, 71903>>, <<93760, 93823>>, <<119808, 119892>>, <<119894, 119964>>, <<119966, 119967>>, <<119970, 119970>>, <<119973, 119974>>, <<119977, 119980>>, <<119982, 119993>>,
      <<119995, 119995>>, <<119997, 120003>>, <<120005, 120069>>, <<120071, 120074>>, <<120077, 120084>>, <<120086, 120092>>, <<120094, 120121>>, <<120123, 120126>>, <<120128, 120132>>, <<120134, 120134>>,
      <<120138, 120144>>, <<120146, 120485>>, <<120488, 120512>>, <<120514, 120538>>, <<120540, 120570>>, <<120572, 120596>>, <<120598, 120628>>, <<120630, 120654>>, <<120656, 120686>>, <<120688, 120712>>,
      <<120714, 120744>>, <<120746, 120770>>, <<120772, 120779>>, <<122624, 122633>>, <<122635, 122654>>, <<125184, 125251>>, <<127280, 127305>>, <<127312, 127337>>, <<127344, 127369>> }

InRanges(c, ranges) == \E r \in ranges : r[1] <= c /\ c <= r[2]

\* A character the Final_Sigma rule passes over.
IsCaseIgnorable(c) == InRanges(c, CaseIgnorableRanges)

\* A character, not passed over, that the rule counts as cased.
IsCased(c) == InRanges(c, CasedRanges)

\* The capital sigma at s[i] ends a word: a cased character comes before it
\* and none after it, case-ignorable characters passed over on both sides.
FinalSigma(s, i) ==
    LET before == {j \in 1..(i - 1) : ~IsCaseIgnorable(s[j])}
        after  == {j \in (i + 1)..Len(s) : ~IsCaseIgnorable(s[j])}
    IN  /\ before # {}
        /\ IsCased(s[Max(before)])
        /\ after = {} \/ ~IsCased(s[Min(after)])

\* What the character s[i] lowers to: one character, but two for U+0130.
LowerChar(s, i) ==
    IF s[i] < 128 THEN <<IF s[i] \in 65..90 THEN s[i] + 32 ELSE s[i]>>
    ELSE IF s[i] = 304 THEN <<105, 775>>
    ELSE IF s[i] = 931 THEN <<IF FinalSigma(s, i) THEN 962 ELSE 963>>
    ELSE LET hit == {r \in LowerRanges :
                        r[1] <= s[i] /\ s[i] <= r[2] /\ (s[i] - r[1]) % r[3] = 0}
         IN  IF hit = {} THEN <<s[i]>> ELSE <<s[i] + (CHOOSE r \in hit : TRUE)[4]>>

RECURSIVE LowerFrom(_, _)
LowerFrom(s, i) == IF i > Len(s) THEN <<>> ELSE LowerChar(s, i) \o LowerFrom(s, i + 1)

\* s.lower()
Lower(s) == LowerFrom(s, 1)

\* k in s
Contains(s, k) == \E i \in 0..(Len(s) - Len(k)) : SubSeq(s, i + 1, i + Len(k)) = k

\* a < b, the order on str (lexicographic by code point)
StrLess(a, b) ==
    \E k \in 0..Len(a) :
        /\ k <= Len(b)
        /\ SubSeq(a, 1, k) = SubSeq(b, 1, k)
        /\ \/ k = Len(a) /\ k < Len(b)
           \/ k < Len(a) /\ k < Len(b) /\ a[k + 1] < b[k + 1]

\* sorted(S) of a set of str
RECURSIVE Sorted(_)
Sorted(S) ==
    IF S = {} THEN <<>>
    ELSE LET m == CHOOSE x \in S : \A y \in S : x = y \/ StrLess(x, y)
         IN  <<m>> \o Sorted(S \ {m})

\* sep.join(items)
RECURSIVE Join(_, _)
Join(sep, items) ==
    IF items = <<>> THEN <<>>
    ELSE IF Len(items) = 1 THEN items[1]
    ELSE items[1] \o sep \o Join(sep, Tail(items))

\* The maximal runs of characters outside seps, in order: re.split on a
\* class of separators repeated (+), with the empty items dropped.
RECURSIVE Tokens(_, _)
Tokens(s, seps) ==
    LET start == {i \in 1..Len(s) : s[i] \notin seps}
    IN  IF start = {} THEN <<>>
        ELSE LET b    == Min(start)
                 stop == {i \in b..Len(s) : s[i] \in seps}
                 e    == IF stop = {} THEN Len(s) ELSE Min(stop) - 1
             IN  <<SubSeq(s, b, e)>> \o Tokens(SubSeq(s, e + 1, Len(s)), seps)

\* s.split(maxsplit=1): at most two parts, cut at the first whitespace run;
\* the second part keeps its trailing whitespace.
SplitMax1(s) ==
    LET toks == Tokens(s, WhiteSpace)
    IN  IF toks = <<>> THEN <<>>
        ELSE LET b    == Min({i \in 1..Len(s) : s[i] \notin WhiteSpace})
                 e    == b + Len(toks[1]) - 1
                 rest == {i \in (e + 1)..Len(s) : s[i] \notin WhiteSpace}
             IN  IF rest = {} THEN <<toks[1]>>
                 ELSE <<toks[1], SubSeq(s, Min(rest), Len(s))>>

SeqToSet(q) == {q[i] : i \in 1..Len(q)}

\* [x for x in q if x.strip()]
RECURSIVE DropBlank(_)
DropBlank(q) ==
    IF q = <<>> THEN <<>>
    ELSE (IF Strip(Head(q)) # <<>> THEN <<Head(q)>> ELSE <<>>) \o DropBlank(Tail(q))

(***************************************************************************)
(* Keyword tables and tag names.                                           *)
(***************************************************************************)

GENERAL_FACULTY_KEYWORDS ==
    << (* "共通教育" *) <<20849, 36890, 25945, 32946>>, (* "教養教育" *) <<25945, 39178, 25945, 32946>>, (* "全学共通" *) <<20840, 23398, 20849, 36890>>, (* "基盤教育" *) <<22522, 30436, 25945, 32946>>, (* "汎用教育" *) <<27726, 29992, 25945, 32946>>,
       (* "General Education" *) <<71, 101, 110, 101, 114, 97, 108, 32, 69, 100, 117, 99, 97, 116, 105, 111, 110>>, (* "教養科目" *) <<25945, 39178, 31185, 30446>>, (* "共通科目" *) <<20849, 36890, 31185, 30446>> >>

GENERAL_TITLE_KEYWORDS ==
    << (* "教養" *) <<25945, 39178>>, (* "共通科目" *) <<20849, 36890, 31185, 30446>>, (* "General Education" *) <<71, 101, 110, 101, 114, 97, 108, 32, 69, 100, 117, 99, 97, 116, 105, 111, 110>>, (* "Liberal Arts" *) <<76, 105, 98, 101, 114, 97, 108, 32, 65, 114, 116, 115>> >>

INTERNATIONAL_TITLE_KEYWORDS ==
    << (* "留学生" *) <<30041, 23398, 29983>>, (* "International Students" *) <<73, 110, 116, 101, 114, 110, 97, 116, 105, 111, 110, 97, 108, 32, 83, 116, 117, 100, 101, 110, 116, 115>>, (* "for International Students" *) <<102, 111, 114, 32, 73, 110, 116, 101, 114, 110, 97, 116, 105, 111, 110, 97, 108, 32, 83, 116, 117, 100, 101, 110, 116, 115>>,
       (* "Non-Japanese" *) <<78, 111, 110, 45, 74, 97, 112, 97, 110, 101, 115, 101>>, (* "外国人" *) <<22806, 22269, 20154>> >>

GeneralEducation == (* "general-education" *) <<103, 101, 110, 101, 114, 97, 108, 45, 101, 100, 117, 99, 97, 116, 105, 111, 110>>

FacultyCourse == (* "faculty-course" *) <<102, 97, 99, 117, 108, 116, 121, 45, 99, 111, 117, 114, 115, 101>>

MultiFaculty == (* "multi-faculty" *) <<109, 117, 108, 116, 105, 45, 102, 97, 99, 117, 108, 116, 121>>

InternationalStudent == (* "international-student" *) <<105, 110, 116, 101, 114, 110, 97, 116, 105, 111, 110, 97, 108, 45, 115, 116, 117, 100, 101, 110, 116>>

UntitledCourse == (* "Untitled Course" *) <<85, 110, 116, 105, 116, 108, 101, 100, 32, 67, 111, 117, 114, 115, 101>>

\* any(keyword in text for keyword in keywords)
AnyKeywordIn(keywords, text) == \E i \in 1..Len(keywords) : Contains(text, keywords[i])

(***************************************************************************)
(* Classifier.                                                             *)
(***************************************************************************)

\* [name.strip() for name in faculty_names if name.strip()]
NormalizedFaculties(faculty_names) ==
    LET kept == DropBlank(faculty_names)
    IN  [i \in 1..Len(kept) |-> Strip(kept[i])]

CategoryCountingNames(faculty_names, course_title) ==
    LET normalized_faculties == NormalizedFaculties(faculty_names)
    IN  IF normalized_faculties = <<>> THEN GeneralEducation
        ELSE IF \E i \in 1..Len(normalized_faculties) :
                    AnyKeywordIn(GENERAL_FACULTY_KEYWORDS, normalized_faculties[i])
             THEN GeneralEducation
        ELSE IF Len(normalized_faculties) >= 3 THEN GeneralEducation
        ELSE IF AnyKeywordIn(GENERAL_TITLE_KEYWORDS, course_title) THEN GeneralEducation
        ELSE FacultyCourse

determine_course_category(faculty_names, course_title) ==
    LET normalized_faculties == NormalizedFaculties(faculty_names)
    IN  IF normalized_faculties = <<>> THEN GeneralEducation
        ELSE IF \E i \in 1..Len(normalized_faculties) :
                    AnyKeywordIn(GENERAL_FACULTY_KEYWORDS, normalized_faculties[i])
             THEN GeneralEducation
        ELSE IF Cardinality(SeqToSet(normalized_faculties)) >= 3 THEN GeneralEducation
        ELSE IF AnyKeywordIn(GENERAL_TITLE_KEYWORDS, course_title) THEN GeneralEducation
        ELSE FacultyCourse

detect_international_course(course_title) ==
    LET lowered == Lower(course_title)
    IN  \E i \in 1..Len(INTERNATIONAL_TITLE_KEYWORDS) :
            Contains(lowered, Lower(INTERNATIONAL_TITLE_KEYWORDS[i]))

normalize_language_tag(language_value) ==
    LET lowered == Lower(language_value)
    IN  IF language_value = <<>> THEN None
        ELSE IF Contains(lowered, (* "english" *) <<101, 110, 103, 108, 105, 115, 104>>) \/ Contains(language_value, (* "英語" *) <<33521, 35486>>)
             THEN (* "english" *) <<101, 110, 103, 108, 105, 115, 104>>
        ELSE IF Contains(lowered, (* "japanese" *) <<106, 97, 112, 97, 110, 101, 115, 101>>) \/ Contains(language_value, (* "日本語" *) <<26085, 26412, 35486>>)
             THEN (* "japanese" *) <<106, 97, 112, 97, 110, 101, 115, 101>>
        ELSE IF Contains(lowered, (* "chinese" *) <<99, 104, 105, 110, 101, 115, 101>>) \/ Contains(language_value, (* "中国語" *) <<20013, 22269, 35486>>)
             THEN (* "chinese" *) <<99, 104, 105, 110, 101, 115, 101>>
        ELSE IF Contains(lowered, (* "korean" *) <<107, 111, 114, 101, 97, 110>>) \/ Contains(language_value, (* "韓国語" *) <<38867, 22269, 35486>>)
             THEN (* "korean" *) <<107, 111, 114, 101, 97, 110>>
        ELSE IF Contains(lowered, (* "french" *) <<102, 114, 101, 110, 99, 104>>) \/ Contains(language_value, (* "フランス語" *) <<12501, 12521, 12531, 12473, 35486>>)
             THEN (* "french" *) <<102, 114, 101, 110, 99, 104>>
        ELSE IF Contains(lowered, (* "german" *) <<103, 101, 114, 109, 97, 110>>) \/ Contains(language_value, (* "ドイツ語" *) <<12489, 12452, 12484, 35486>>)
             THEN (* "german" *) <<103, 101, 114, 109, 97, 110>>
        ELSE None

\* The set derive_tags builds before sorting it.
TagSet(category, faculty_names, course_title, instruction_language) ==
    LET unique_faculties == {name \in SeqToSet(faculty_names) : name # <<>>}
        language_tag     == normalize_language_tag(instruction_language)
    IN  {category}
            \cup (IF Cardinality(unique_faculties) > 1 /\ category # GeneralEducation
                  THEN {MultiFaculty} ELSE {})
            \cup (IF detect_international_course(course_title)
                  THEN {InternationalStudent} ELSE {})
            \cup (IF language_tag # None /\ language_tag # <<>>
                  THEN {(* "lang:" *) <<108, 97, 110, 103, 58>> \o language_tag} ELSE {})

TagsInInsertionOrder(category, faculty_names, course_title, instruction_language) ==
    LET tags == TagSet(category, faculty_names, course_title, instruction_language)
        rest == tags \ {category, MultiFaculty, InternationalStudent}
    IN  <<category>>
            \o (IF MultiFaculty \in tags THEN <<MultiFaculty>> ELSE <<>>)
            \o (IF InternationalStudent \in tags THEN <<InternationalStudent>> ELSE <<>>)
            \o Sorted(rest)

TagsWithMultiFacultyInAnyCategory(category, faculty_names, course_title, instruction_language) ==
    Sorted(TagSet(category, faculty_names, course_title, instruction_language)
             \cup (IF Cardinality({name \in SeqToSet(faculty_names) : name # <<>>}) > 1
                   THEN {MultiFaculty} ELSE {}))

derive_tags(category, faculty_names, course_title, instruction_language) ==
    Sorted(TagSet(category, faculty_names, course_title, instruction_language))

(***************************************************************************)
(* Records.                                                                *)
(***************************************************************************)

\* TextbookRecord(...) as build_records calls it: the fields it passes, and
\* the dataclass defaults for the fields it does not pass.
TextbookRecord(course_code, course_title, campus, faculty_names, textbook_title, textbook_title_reading, authors, publisher, note, tag_names, course_category, instruction_language, academic_year, term, schedule, classroom, credits, instructors) ==
    [ course_code            |-> course_code,
      course_title           |-> course_title,
      campus                 |-> campus,
      faculty_names          |-> faculty_names,
      textbook_title         |-> textbook_title,
      textbook_title_reading |-> textbook_title_reading,
      authors                |-> authors,
      publisher              |-> publisher,
      publication_year       |-> <<>>,
      isbn                   |-> <<>>,
      note                   |-> note,
      tag_names              |-> tag_names,
      course_category        |-> course_category,
      instruction_language   |-> instruction_language,
      academic_year          |-> academic_year,
      term                   |-> term,
      schedule               |-> schedule,
      classroom              |-> classroom,
      credits                |-> credits,
      instructors            |-> instructors ]

CsvHeaderWithoutPublicationYear ==
    << "textbook_title", "textbook_title_reading", "authors", "publisher",
       "isbn", "course_title", "course_code", "academic_year",
       "term", "schedule", "classroom", "credits", "instructors", "faculty_names",
       "campus", "tag_names", "course_category", "instruction_language", "note" >>

CSV_HEADER ==
    << "textbook_title", "textbook_title_reading", "authors", "publisher",
       "publication_year", "isbn", "course_title", "course_code", "academic_year",
       "term", "schedule", "classroom", "credits", "instructors", "faculty_names",
       "campus", "tag_names", "course_category", "instruction_language", "note" >>

\* value is None.  (Compared as text: TLC cannot compare None with a list of
\* str.)
IsNone(value) == Len(value) = 1 /\ ToString(value) = ToString(None)

\* value or [], for an Optional[List[str]]
OrEmptyList(value) == IF IsNone(value) THEN <<>> ELSE value

ToCsvRowCampusFirst(self) ==
    << self.textbook_title,
       self.textbook_title_reading,
       self.authors,
       self.publisher,
       self.publication_year,
       self.isbn,
       self.course_title,
       self.course_code,
       self.academic_year,
       self.term,
       self.schedule,
       self.classroom,
       self.credits,
       Join((* "," *) <<44>>, OrEmptyList(self.instructors)),
       self.campus,
       Join((* "," *) <<44>>, self.faculty_names),
       self.tag_names,
       self.course_category,
       self.instruction_language,
       self.note >>

to_csv_row(self) ==
    << self.textbook_title,
       self.textbook_title_reading,
       self.authors,
       self.publisher,
       self.publication_year,
       self.isbn,
       self.course_title,
       self.course_code,
       self.academic_year,
       self.term,
       self.schedule,
       self.classroom,
       self.credits,
       Join((* "," *) <<44>>, OrEmptyList(self.instructors)),
       Join((* "," *) <<44>>, self.faculty_names),
       self.campus,
       self.tag_names,
       self.course_category,
       self.instruction_language,
       self.note >>

(***************************************************************************)
(* Batch annotator.  The passes mutate the records' note in place; here a  *)
(* pass maps the record list to the list after the pass.                   *)
(***************************************************************************)

NoteSeparator == (* " / " *) <<32, 47, 32>>

AppendNoteAlways(note, addition) ==
    IF addition = <<>> THEN note
    ELSE IF note # <<>> THEN note \o NoteSeparator \o addition
    ELSE addition

AppendNoteInFront(note, addition) ==
    IF addition = <<>> THEN note
    ELSE IF Contains(note, addition) THEN note
    ELSE IF note # <<>> THEN addition \o NoteSeparator \o note
    ELSE addition

\* append_note(record, addition), as the note it leaves on the record
append_note(note, addition) ==
    IF addition = <<>> THEN note
    ELSE IF Contains(note, addition) THEN note
    ELSE IF note # <<>> THEN note \o NoteSeparator \o addition
    ELSE addition

\* titles_by_code[code], for a code some record carries
titles_by_code(records, code) ==
    {records[i].course_title : i \in {j \in 1..Len(records) : records[j].course_code = code}}

AliasNote(other_titles) == (* "別名称: " *) <<21029, 21517, 31216, 58, 32>> \o Join(NoteSeparator, other_titles)

AnnotateAliasesWithOwnTitle(records) ==
    [i \in 1..Len(records) |->
        LET record       == records[i]
            alias_titles == titles_by_code(records, record.course_code)
        IN  IF record.course_code = <<>> THEN record
            ELSE IF Cardinality(alias_titles) <= 1 THEN record
            ELSE [record EXCEPT !.note = append_note(record.note, AliasNote(Sorted(alias_titles)))]]

annotate_aliases(records) ==
    [i \in 1..Len(records) |->
        LET record       == records[i]
            alias_titles == titles_by_code(records, record.course_code)
            other_titles == Sorted({title \in alias_titles : title # record.course_title})
        IN  IF record.course_code = <<>> THEN record
            ELSE IF Cardinality(alias_titles) <= 1 THEN record
            ELSE IF other_titles # <<>>
                 THEN [record EXCEPT !.note = append_note(record.note, AliasNote(other_titles))]
            ELSE record]

MultiFacultyNote(unique_faculties) == (* "複数学部向け: " *) <<35079, 25968, 23398, 37096, 21521, 12369, 58, 32>> \o Join((* ", " *) <<44, 32>>, unique_faculties)

GeneralEducationNote == (* "教養・共通科目 (自動判定)" *) <<25945, 39178, 12539, 20849, 36890, 31185, 30446, 32, 40, 33258, 21205, 21028, 23450, 41>>

AnnotateFacultyScopeOneNote(records) ==
    [i \in 1..Len(records) |->
        LET record           == records[i]
            unique_faculties == Sorted(SeqToSet(record.faculty_names))
        IN  IF Len(unique_faculties) > 1
            THEN [record EXCEPT !.note = append_note(record.note, MultiFacultyNote(unique_faculties))]
            ELSE IF record.course_category = GeneralEducation
            THEN [record EXCEPT !.note = append_note(record.note, GeneralEducationNote)]
            ELSE record]

annotate_faculty_scope(records) ==
    [i \in 1..Len(records) |->
        LET record           == records[i]
            unique_faculties == Sorted(SeqToSet(record.faculty_names))
            note1 == IF Len(unique_faculties) > 1
                     THEN append_note(record.note, MultiFacultyNote(unique_faculties))
                     ELSE record.note
            note2 == IF record.course_category = GeneralEducation
                     THEN append_note(note1, GeneralEducationNote)
                     ELSE note1
        IN  [record EXCEPT !.note = note2]]

(***************************************************************************)
(* A parsed page.  Soup(...) holds what the scraper's queries return:      *)
(*   course_table    whether select_one finds the course-info table        *)
(*   course_rows     its tr rows, each as the get_text(strip=True) of its  *)
(*                   td cells                                              *)
(*   campus, classroom, language                                          *)
(*                   for each h3/th header matching the field's labels, in *)
(*                   document order, the stripped text of the element that *)
(*                   follows it (None when nothing follows)                *)
(*   textbook_heading whether an h3 matching the textbook keyword exists   *)
(*   textbook_table  whether a table follows that heading                  *)
(*   textbook_rows   that table's tr rows, each the sequence of its th/td  *)
(*                   cells as [name, text], text being get_text(strip=True)*)
(***************************************************************************)
Soup(course_table, course_rows, campus, classroom, language, textbook_heading, textbook_table, textbook_rows) ==
    [ course_table     |-> course_table,
      course_rows      |-> course_rows,
      campus           |-> campus,
      classroom        |-> classroom,
      language         |-> language,
      textbook_heading |-> textbook_heading,
      textbook_table   |-> textbook_table,
      textbook_rows    |-> textbook_rows ]

Th(text) == [name |-> "th", text |-> text]

Td(text) == [name |-> "td", text |-> text]

(***************************************************************************)
(* Identifier parser and metadata extractor.                               *)
(***************************************************************************)

Colons == {58, 65306}

\* The characters the class [^\s：:] matches.
IsCodeChar(c) == c \notin WhiteSpace /\ c \notin Colons

NoMatch == [matched |-> FALSE]

\* re.match(r"(?P<code>[^\s：:]+)[：:](?P<title>.+)", value): no match, or the
\* groups code and title.  The code is the longest run of code characters
\* at the start, which a colon must follow; the title is what follows the
\* colon up to the first line feed ("." matches no line feed), not empty.
IdentifierMatch(value) ==
    LET stop == {i \in 1..Len(value) : ~IsCodeChar(value[i])}
    IN  IF stop = {} THEN NoMatch
        ELSE LET c    == Min(stop)
                 nl   == {i \in (c + 1)..Len(value) : value[i] = 10}
                 last == IF nl = {} THEN Len(value) ELSE Min(nl) - 1
             IN  IF c > 1 /\ value[c] \in Colons /\ last > c
                 THEN [matched |-> TRUE,
                       code    |-> SubSeq(value, 1, c - 1),
                       title   |-> SubSeq(value, c + 1, last)]
                 ELSE NoMatch

ParseIdentifierTitleLast(value) ==
    LET match == IdentifierMatch(value)
        parts == SplitMax1(value)
    IN  IF match.matched THEN <<match.code, Strip(match.title)>>
        ELSE IF Len(parts) = 2 THEN <<Strip(parts[1]), Strip(parts[2])>>
        ELSE <<<<>>, Strip(value)>>

\* <<code, title>>
parse_course_identifier(value) ==
    LET match == IdentifierMatch(value)
        parts == SplitMax1(value)
    IN  IF match.matched THEN <<match.code, Strip(match.title)>>
        ELSE IF Len(parts) = 2 THEN <<Strip(parts[1]), Strip(parts[2])>>
        ELSE <<Strip(value), <<>>>>

\* One of the section fields of a page (soup.campus, ...): the first
\* following text that is not empty, else "".
extract_section_text(candidates) ==
    LET hits == {i \in 1..Len(candidates) : candidates[i] # None /\ candidates[i] # <<>>}
    IN  IF hits = {} THEN <<>> ELSE candidates[Min(hits)]

NameSeparators == {12289, 44} \cup WhiteSpace

NameListKeepingCommas(value) ==
    IF value = <<>> THEN <<>> ELSE Tokens(Strip(value), {12289} \cup WhiteSpace)

normalize_name_list(value) ==
    IF value = <<>> THEN <<>> ELSE Tokens(Strip(value), NameSeparators)

InstructorSeparators == {12289, 44, 47, 65295}

normalize_instructor_list(value) ==
    IF value = <<>> THEN <<>>
    ELSE LET raw_items == Tokens(Strip(value), InstructorSeparators)
             kept      == DropBlank(raw_items)
         IN  [i \in 1..Len(kept) |-> Strip(kept[i])]

\* get_cell(index) of extract_course_metadata, index counted from 0
get_cell(cells, index) == IF index < Len(cells) THEN cells[index + 1] ELSE <<>>

Raised(exception) == [raised |-> TRUE, exception |-> exception]

\* The CourseMetadata, or the ValueError raised.
extract_course_metadata(soup) ==
    IF ~soup.course_table THEN Raised("ValueError")
    ELSE IF Len(soup.course_rows) < 2 THEN Raised("ValueError")
    ELSE LET cells == soup.course_rows[2]
         IN  IF Len(cells) < 1 THEN Raised("ValueError")
             ELSE LET ident == parse_course_identifier(get_cell(cells, 0))
                  IN  [ raised               |-> FALSE,
                        course_code          |-> ident[1],
                        course_title         |-> ident[2],
                        academic_year        |-> get_cell(cells, 1),
                        term                 |-> get_cell(cells, 2),
                        schedule             |-> get_cell(cells, 3),
                        campus               |-> extract_section_text(soup.campus),
                        classroom            |-> extract_section_text(soup.classroom),
                        faculties            |-> normalize_name_list(get_cell(cells, 4)),
                        instructors          |-> normalize_instructor_list(get_cell(cells, 5)),
                        credits              |-> IF Len(cells) > 6 THEN get_cell(cells, 6) ELSE <<>>,
                        instruction_language |-> extract_section_text(soup.language) ]

(***************************************************************************)
(* Textbook table extractor.                                               *)
(***************************************************************************)

\* The canonical field of a header label, "None" when it names none.
normalize_textbook_header(label) ==
    LET value == Strip(label)
        lower == Lower(value)
    IN  IF value = <<>> THEN "None"
        ELSE IF Contains(value, (* "書名" *) <<26360, 21517>>) \/ Contains(value, (* "タイトル" *) <<12479, 12452, 12488, 12523>>)
                    \/ Contains(lower, (* "name" *) <<110, 97, 109, 101>>)
             THEN "title"
        ELSE IF Contains(value, (* "読み" *) <<35501, 12415>>) \/ Contains(value, (* "フリガナ" *) <<12501, 12522, 12460, 12490>>)
                    \/ Contains(value, (* "ふりがな" *) <<12405, 12426, 12364, 12394>>)
             THEN "reading"
        ELSE IF Contains(value, (* "著者" *) <<33879, 32773>>) \/ Contains(value, (* "編者" *) <<32232, 32773>>)
                    \/ Contains(lower, (* "author" *) <<97, 117, 116, 104, 111, 114>>)
             THEN "authors"
        ELSE IF Contains(value, (* "出版社" *) <<20986, 29256, 31038>>) \/ Contains(lower, (* "publisher" *) <<112, 117, 98, 108, 105, 115, 104, 101, 114>>)
             THEN "publisher"
        ELSE IF Contains(Lower(value), (* "isbn" *) <<105, 115, 98, 110>>) THEN "isbn"
        ELSE IF Contains(value, (* "備考" *) <<20633, 32771>>) \/ Contains(value, (* "補足" *) <<35036, 36275>>)
                    \/ Contains(value, (* "メモ" *) <<12513, 12514>>) \/ Contains(value, (* "使用頻度" *) <<20351, 29992, 38971, 24230>>)
                    \/ Contains(lower, (* "note" *) <<110, 111, 116, 101>>)
             THEN "note"
        ELSE "None"

TextbookFields == {"title", "reading", "authors", "publisher", "isbn", "note"}

\* The dict values of one row, a field it does not hold mapped to None.
EmptyValues == [k \in TextbookFields |-> None]

\* values.get(key, "")
ValueOr(values, key) == IF values[key] = None THEN <<>> ELSE values[key]

\* values.setdefault(key, text)
SetDefault(values, key, text) ==
    IF values[key] = None THEN [values EXCEPT ![key] = text] ELSE values

\* The column a cell falls back to by position, index counted from 0.
PositionalField(index) ==
    IF index = 0 THEN "title"
    ELSE IF index = 1 THEN "authors"
    ELSE IF index = 2 THEN "publisher"
    ELSE IF index = 3 THEN "isbn"
    ELSE IF index = 4 THEN "note"
    ELSE "None"

\* The loop over one row's cells from cell index on (counted from 0).
RECURSIVE RowValues(_, _, _, _)
RowValues(cells, header_map, index, values) ==
    IF index >= Len(cells) THEN values
    ELSE LET key  == IF header_map # <<>> /\ index < Len(header_map)
                     THEN header_map[index + 1] ELSE "None"
             text == cells[index + 1].text
             next == IF key # "None" THEN [values EXCEPT ![key] = text]
                     ELSE IF PositionalField(index) # "None"
                          THEN SetDefault(values, PositionalField(index), text)
                     ELSE values
         IN  RowValues(cells, header_map, index + 1, next)

RECURSIVE RowEntriesKeepingUntitled(_, _)
RowEntriesKeepingUntitled(data_rows, header_map) ==
    IF data_rows = <<>> THEN <<>>
    ELSE LET cells  == Head(data_rows)
             values == RowValues(cells, header_map, 0, EmptyValues)
             rest   == RowEntriesKeepingUntitled(Tail(data_rows), header_map)
         IN  IF cells = <<>> THEN rest
             ELSE << [ title     |-> Strip(ValueOr(values, "title")),
                       reading   |-> ValueOr(values, "reading"),
                       authors   |-> ValueOr(values, "authors"),
                       publisher |-> ValueOr(values, "publisher"),
                       isbn      |-> ValueOr(values, "isbn"),
                       note      |-> ValueOr(values, "note") ] >> \o rest

\* The loop over the data rows.
RECURSIVE RowEntries(_, _)
RowEntries(data_rows, header_map) ==
    IF data_rows = <<>> THEN <<>>
    ELSE LET cells  == Head(data_rows)
             values == RowValues(cells, header_map, 0, EmptyValues)
             title  == Strip(ValueOr(values, "title"))
             rest   == RowEntries(Tail(data_rows), header_map)
         IN  IF cells = <<>> THEN rest
             ELSE IF title = <<>> THEN rest
             ELSE << [ title     |-> title,
                       reading   |-> ValueOr(values, "reading"),
                       authors   |-> ValueOr(values, "authors"),
                       publisher |-> ValueOr(values, "publisher"),
                       isbn      |-> ValueOr(values, "isbn"),
                       note      |-> ValueOr(values, "note") ] >> \o rest

extract_textbooks(soup) ==
    IF ~soup.textbook_heading THEN <<>>
    ELSE IF ~soup.textbook_table THEN <<>>
    ELSE IF soup.textbook_rows = <<>> THEN <<>>
    ELSE LET rows            == soup.textbook_rows
             first_row_cells == rows[1]
             has_header      == \E i \in 1..Len(first_row_cells) : first_row_cells[i].name = "th"
             header_map      == IF has_header
                                THEN [i \in 1..Len(first_row_cells) |->
                                         normalize_textbook_header(first_row_cells[i].text)]
                                ELSE <<>>
             data_rows       == IF has_header THEN Tail(rows) ELSE rows
         IN  RowEntries(data_rows, header_map)

(***************************************************************************)
(* Record builder.                                                         *)
(***************************************************************************)

ResolvedTitleNoDefault(metadata) ==
    IF metadata.course_title # <<>> THEN metadata.course_title
    ELSE IF metadata.course_code # <<>> THEN metadata.course_code
    ELSE <<>>

\* resolved_course_title of build_records
ResolvedCourseTitle(metadata) ==
    LET first == IF metadata.course_title # <<>> THEN metadata.course_title
                 ELSE IF metadata.course_code # <<>> THEN metadata.course_code
                 ELSE <<>>
    IN  IF first = <<>> THEN UntitledCourse ELSE first

\* build_records after its first two lines: the records built from the
\* page's metadata and its textbook entries.
RecordsOf(metadata, textbooks) ==
    LET resolved_course_title == ResolvedCourseTitle(metadata)
        course_category       ==
            determine_course_category(metadata.faculties, resolved_course_title)
        base_tags             ==
            derive_tags(course_category, metadata.faculties,
                        resolved_course_title, metadata.instruction_language)
    IN  [i \in 1..Len(textbooks) |->
            LET textbook    == textbooks[i]
                note        == textbook.note
                record_tags ==
                    SeqToSet(base_tags)
                        \cup (IF detect_international_course(note)
                              THEN {InternationalStudent} ELSE {})
            IN  TextbookRecord(
                    metadata.course_code,
                    resolved_course_title,
                    metadata.campus,
                    metadata.faculties,
                    textbook.title,
                    textbook.reading,
                    textbook.authors,
                    textbook.publisher,
                    note,
                    Join((* "," *) <<44>>, Sorted(record_tags)),
                    course_category,
                    metadata.instruction_language,
                    metadata.academic_year,
                    metadata.term,
                    metadata.schedule,
                    metadata.classroom,
                    metadata.credits,
                    metadata.instructors)]

\* What build_records does with the metadata extractor's outcome: the
\* ValueError goes on to the caller, a CourseMetadata is built into records.
BuildFrom(metadata, soup) ==
    IF metadata.raised THEN metadata
    ELSE [raised |-> FALSE, records |-> RecordsOf(metadata, extract_textbooks(soup))]

\* The records of one page, or the ValueError extract_course_metadata raised.
build_records(soup) == BuildFrom(extract_course_metadata(soup), soup)

\* scrape_file(path): the page at path is parsed and handed to build_records.
scrape_file(html_file) == build_records(html_file.soup)

(***************************************************************************)
(* Input files and output file.                                            *)
(***************************************************************************)

EndsWith(s, suffix) ==
    Len(s) >= Len(suffix) /\ SubSeq(s, Len(s) - Len(suffix) + 1, Len(s)) = suffix

\* A file of the input: its name, whether it exists, the page it parses to.
File(name, exists, soup) == [name |-> name, exists |-> exists, soup |-> soup]

\* The names of a set of files, sorted, as the files in that order.
FilesByName(files) ==
    LET names == Sorted({f.name : f \in files})
    IN  [i \in 1..Len(names) |-> CHOOSE f \in files : f.name = names[i]]

\* iter_html_files(target), as the sequence it yields: target.files are the
\* directory's files when target is a directory, else the one file named.
iter_html_files(target_path) ==
    IF target_path.is_dir
    THEN FilesByName({f \in target_path.files : EndsWith(f.name, (* ".html" *) <<46, 104, 116, 109, 108>>)})
    ELSE FilesByName(target_path.files)

NoFile == [exists |-> FALSE, header |-> <<>>, rows |-> <<>>]

\* A lone surrogate, the one kind of code point a str holds that the
\* utf-8 codec of the output file refuses.
IsSurrogate(c) == c \in 55296..57343

\* The file object can encode the line csv.writer makes of row.
Utf8Encodable(row) ==
    \A k \in 1..Len(row) : \A j \in 1..Len(row[k]) : ~IsSurrogate(row[k][j])

\* The rows in front of the first one the file object cannot encode, all
\* of them when there is none.
RowsUntilUnencodable(rows) ==
    LET bad == {i \in 1..Len(rows) : ~Utf8Encodable(rows[i])}
    IN  IF bad = {} THEN rows ELSE SubSeq(rows, 1, Min(bad) - 1)

\* The file the with block leaves at the path: the header row and the rows
\* written before writerow returned or raised.
FileOf(rows) == [exists |-> TRUE, header |-> CSV_HEADER, rows |-> rows]

\* write_csv(records, output_path), output_path given as the file found at
\* the path: SystemExit on an empty list, the file left as it was; else the
\* file is replaced by the header row and one row per record, and a row
\* that utf-8 cannot encode raises UnicodeEncodeError out of writerow, the
\* file closed with the header row and the rows before it.
\* (csv.writer's quoting is not modelled: a row is the list of its fields.)
WriteRows(rows) ==
    IF RowsUntilUnencodable(rows) = rows
    THEN [raised |-> FALSE, exception |-> "", file |-> FileOf(rows)]
    ELSE [raised    |-> TRUE,
          exception |-> "UnicodeEncodeError",
          file      |-> FileOf(RowsUntilUnencodable(rows))]

write_csv(records, output_path) ==
    IF records = <<>>
    THEN [raised |-> TRUE, exception |-> "SystemExit", file |-> output_path]
    ELSE WriteRows([i \in 1..Len(records) |-> to_csv_row(records[i])])

(***************************************************************************)
(* main.                                                                   *)
(***************************************************************************)

Failed(exception) ==
    /\ pc' = "failed"
    /\ err' = exception
    /\ UNCHANGED <<target, idx, all_records, output, arg, ret>>

CollectSkippingMalformed(result) ==
    /\ all_records' = IF result.raised THEN all_records ELSE all_records \o result.records
    /\ idx' = idx + 1
    /\ UNCHANGED <<pc, target, output, err, arg, ret>>

CollectStoppingOnEmpty(result) ==
    IF result.raised THEN Failed(result.exception)
    ELSE IF result.records = <<>> THEN Failed("SystemExit")
    ELSE /\ all_records' = all_records \o result.records
         /\ idx' = idx + 1
         /\ UNCHANGED <<pc, target, output, err, arg, ret>>

\* The loop body once scrape_file has returned or raised.
Collect(result) ==
    IF result.raised THEN Failed(result.exception)
    ELSE /\ all_records' = all_records \o result.records
         /\ idx' = idx + 1
         /\ UNCHANGED <<pc, target, output, err, arg, ret>>

\* The loop body for one file.
Visit(html_file) ==
    IF ~html_file.exists THEN Failed("SystemExit")
    ELSE Collect(scrape_file(html_file))

\* One turn of main's loop over iter_html_files(parsed.input).
ScrapeFile ==
    /\ pc = "scan"
    /\ idx <= Len(iter_html_files(target))
    /\ Visit(iter_html_files(target)[idx])

EndScanEarly ==
    /\ pc = "scan"
    /\ IF all_records = <<>> /\ idx > Len(iter_html_files(target)) THEN Failed("SystemExit")
       ELSE /\ all_records # <<>>
            /\ pc' = "annotate_aliases"
            /\ UNCHANGED <<target, idx, all_records, output, err, arg, ret>>

\* The loop has ended: main stops when it collected nothing.
EndScan ==
    /\ pc = "scan"
    /\ idx > Len(iter_html_files(target))
    /\ IF all_records = <<>> THEN Failed("SystemExit")
       ELSE /\ pc' = "annotate_aliases"
            /\ UNCHANGED <<target, idx, all_records, output, err, arg, ret>>

AnnotateAliases ==
    /\ pc = "annotate_aliases"
    /\ all_records' = annotate_aliases(all_records)
    /\ pc' = "annotate_faculty_scope"
    /\ UNCHANGED <<target, idx, output, err, arg, ret>>

AnnotateFacultyScope ==
    /\ pc = "annotate_faculty_scope"
    /\ all_records' = annotate_faculty_scope(all_records)
    /\ pc' = "write_csv"
    /\ UNCHANGED <<target, idx, output, err, arg, ret>>

\* The end of main once write_csv has returned or raised; the file at
\* parsed.output is as write_csv left it either way.
Finish(result) ==
    /\ output' = result.file
    /\ pc' = IF result.raised THEN "failed" ELSE "done"
    /\ err' = result.exception
    /\ UNCHANGED <<target, idx, all_records, arg, ret>>

\* write_csv(all_records, parsed.output)
WriteCsv ==
    /\ pc = "write_csv"
    /\ Finish(write_csv(all_records, output))

(***************************************************************************)
(* The pages and inputs the model runs main on.                            *)
(***************************************************************************)

CourseRow(identifier, faculties) ==
    <<identifier, (* "2024" *) <<50, 48, 50, 52>>, (* "前期" *) <<21069, 26399>>, (* "月1" *) <<26376, 49>>, faculties, (* "山田 太郎／Smith" *) <<23665, 30000, 32, 22826, 37070, 65295, 83, 109, 105, 116, 104>>, (* "2" *) <<50>>>>

HeaderRow == <<Th((* "No" *) <<78, 111>>), Th((* "講義コード：科目名" *) <<35611, 32681, 12467, 12540, 12489, 65306, 31185, 30446, 21517>>)>>

TextbookHeader == <<Th((* "書名" *) <<26360, 21517>>), Th((* "著者" *) <<33879, 32773>>), Th((* "出版社" *) <<20986, 29256, 31038>>), Th((* "ISBN" *) <<73, 83, 66, 78>>), Th((* "備考" *) <<20633, 32771>>)>>

PagePhysicsI ==
    Soup(TRUE, <<<<>>, CourseRow((* "XYZ9：Physics I" *) <<88, 89, 90, 57, 65306, 80, 104, 121, 115, 105, 99, 115, 32, 73>>, (* "理学部、工学部" *) <<29702, 23398, 37096, 12289, 24037, 23398, 37096>>)>>,
         <<(* "衣笠" *) <<34915, 31520>>>>, <<<<>>, (* "A101" *) <<65, 49, 48, 49>>>>, <<(* "英語 / English" *) <<33521, 35486, 32, 47, 32, 69, 110, 103, 108, 105, 115, 104>>>>,
         TRUE, TRUE,
         <<TextbookHeader,
           <<Td((* "Algorithms" *) <<65, 108, 103, 111, 114, 105, 116, 104, 109, 115>>), Td((* "A. Author" *) <<65, 46, 32, 65, 117, 116, 104, 111, 114>>), Td((* "MIT Press" *) <<77, 73, 84, 32, 80, 114, 101, 115, 115>>), Td((* "123" *) <<49, 50, 51>>), Td(<<>>)>>>>)

PageGeneralPhysics ==
    Soup(TRUE, <<<<>>, CourseRow((* "XYZ9 General Physics" *) <<88, 89, 90, 57, 32, 71, 101, 110, 101, 114, 97, 108, 32, 80, 104, 121, 115, 105, 99, 115>>, (* "理学部" *) <<29702, 23398, 37096>>)>>,
         <<>>, <<>>, <<(* "日本語" *) <<26085, 26412, 35486>>>>,
         TRUE, TRUE,
         <<<<Td((* "Mechanics" *) <<77, 101, 99, 104, 97, 110, 105, 99, 115>>), Td((* "B. Writer" *) <<66, 46, 32, 87, 114, 105, 116, 101, 114>>), Td((* "Springer" *) <<83, 112, 114, 105, 110, 103, 101, 114>>), Td((* "456" *) <<52, 53, 54>>), Td((* "留学生向け" *) <<30041, 23398, 29983, 21521, 12369>>)>>,
           <<Td((* "Optics" *) <<79, 112, 116, 105, 99, 115>>), Td((* "C. Editor" *) <<67, 46, 32, 69, 100, 105, 116, 111, 114>>)>>>>)

PageSeminar ==
    Soup(TRUE, <<<<>>, <<(* "Seminar" *) <<83, 101, 109, 105, 110, 97, 114>>>>>>,
         <<None>>, <<>>, <<>>,
         TRUE, TRUE,
         <<<<Th((* "タイトル" *) <<12479, 12452, 12488, 12523>>), Th((* "メモ" *) <<12513, 12514>>)>>,
           <<Td(<<>>), Td((* "no title" *) <<110, 111, 32, 116, 105, 116, 108, 101>>)>>,
           <<Td((* "Reader" *) <<82, 101, 97, 100, 101, 114>>), Td((* "教養・共通科目 (自動判定)" *) <<25945, 39178, 12539, 20849, 36890, 31185, 30446, 32, 40, 33258, 21205, 21028, 23450, 41>>)>>>>)

PageNoTextbooks ==
    Soup(TRUE, <<<<>>, CourseRow((* "AB1:Law" *) <<65, 66, 49, 58, 76, 97, 119>>, (* "法学部" *) <<27861, 23398, 37096>>)>>,
         <<>>, <<>>, <<>>, FALSE, FALSE, <<>>)

PageBlankTitles ==
    Soup(TRUE, <<<<>>, CourseRow((* "AB1:Law" *) <<65, 66, 49, 58, 76, 97, 119>>, (* "法学部" *) <<27861, 23398, 37096>>)>>,
         <<>>, <<>>, <<>>, TRUE, TRUE,
         <<TextbookHeader, <<Td(<<>>), Td((* "A. Author" *) <<65, 46, 32, 65, 117, 116, 104, 111, 114>>)>>>>)

\* The second title holds a lone surrogate, which the html.parser tree
\* builder makes of the character reference &#xD800;.
PageGlyphs ==
    Soup(TRUE, <<<<>>, CourseRow((* "SG1：Glyphs" *) <<83, 71, 49, 65306, 71, 108, 121, 112, 104, 115>>, (* "文学部" *) <<25991, 23398, 37096>>)>>,
         <<>>, <<>>, <<>>, TRUE, TRUE,
         <<<<Td((* "ok title" *) <<111, 107, 32, 116, 105, 116, 108, 101>>)>>, <<Td(<<97, 55296, 98>>)>>>>)

PageNoCourseTable ==
    Soup(FALSE, <<>>, <<>>, <<>>, <<>>, TRUE, TRUE,
         <<<<Td((* "Algorithms" *) <<65, 108, 103, 111, 114, 105, 116, 104, 109, 115>>), Td((* "A. Author" *) <<65, 46, 32, 65, 117, 116, 104, 111, 114>>)>>>>)

PageOneCourseRow ==
    Soup(TRUE, <<<<>>>>, <<>>, <<>>, <<>>, TRUE, TRUE,
         <<<<Td((* "Algorithms" *) <<65, 108, 103, 111, 114, 105, 116, 104, 109, 115>>), Td((* "A. Author" *) <<65, 46, 32, 65, 117, 116, 104, 111, 114>>)>>>>)

PageNoCourseCells ==
    Soup(TRUE, <<<<>>, <<>>>>, <<>>, <<>>, <<>>, TRUE, TRUE,
         <<<<Td((* "Algorithms" *) <<65, 108, 103, 111, 114, 105, 116, 104, 109, 115>>), Td((* "A. Author" *) <<65, 46, 32, 65, 117, 116, 104, 111, 114>>)>>>>)

Pages ==
    { PagePhysicsI, PageGeneralPhysics, PageSeminar, PageNoTextbooks, PageBlankTitles,
      PageGlyphs, PageNoCourseTable, PageOneCourseRow, PageNoCourseCells }

\* The number of *.html files a directory holds at most.
MaxFiles == 2

\* "a.html", "b.html", ...
FileName(i) == <<96 + i>> \o (* ".html" *) <<46, 104, 116, 109, 108>>

\* A file glob("*.html") passes over.
OtherFile == File((* "index.txt" *) <<105, 110, 100, 101, 120, 46, 116, 120, 116>>, TRUE, PageNoCourseTable)

Directories ==
    { [is_dir |-> TRUE,
       files  |-> {File(FileName(i), TRUE, page[i]) : i \in DOMAIN page} \cup other]
        : page \in UNION {[S -> Pages] : S \in SUBSET (1..MaxFiles)},
          other \in {{}, {OtherFile}} }

SingleFiles ==
    { [is_dir |-> FALSE, files |-> {File(FileName(1), exists, page)}]
        : exists \in BOOLEAN, page \in Pages }

\* A file left at parsed.output by an earlier run.
StaleOutput == [exists |-> TRUE, header |-> <<"textbook_title">>, rows |-> <<>>]

InitialOutputs == {NoFile, StaleOutput}

Init ==
    /\ pc = "scan"
    /\ target \in Directories \cup SingleFiles
    /\ idx = 1
    /\ all_records = <<>>
    /\ output \in InitialOutputs
    /\ err = ""
    /\ arg = <<>>
    /\ ret = <<>>

Next ==
    \/ ScrapeFile
    \/ EndScan
    \/ AnnotateAliases
    \/ AnnotateFacultyScope
    \/ WriteCsv

Spec == Init /\ [][Next]_vars

(***************************************************************************)
(* The functions on their own: a specification draws the arguments of a    *)
(* call from a bounded set (Init) and makes the call (its one step).  The  *)
(* variables of main that a specification does not use keep these values.  *)
(***************************************************************************)

NoTarget == [is_dir |-> FALSE, files |-> {}]

MainIdle ==
    /\ target = NoTarget
    /\ idx = 0
    /\ output = NoFile
    /\ err = ""

(***************************************************************************)
(* SpecClassify: determine_course_category and derive_tags.                *)
(***************************************************************************)

\* Faculty names as normalize_name_list yields them, and, since the
\* classifier is also called directly, with a blank and a padded one.
FacultyNamePool ==
    { (* "理学部" *) <<29702, 23398, 37096>>, (* "工学部" *) <<24037, 23398, 37096>>, (* "法学部" *) <<27861, 23398, 37096>>, (* "共通教育センター" *) <<20849, 36890, 25945, 32946, 12475, 12531, 12479, 12540>>, <<>>, (* "理学部 " *) <<29702, 23398, 37096, 32>> }

\* The number of faculty names a call passes at most.
MaxFaculties == 3

RECURSIVE SeqsUpTo(_, _)
SeqsUpTo(S, n) ==
    IF n = 0 THEN {<<>>}
    ELSE LET shorter == SeqsUpTo(S, n - 1)
         IN  shorter \cup {Append(q, x) : q \in {p \in shorter : Len(p) = n - 1}, x \in S}

FacultyLists == SeqsUpTo(FacultyNamePool, MaxFaculties)

TitlePool == { (* "Physics I" *) <<80, 104, 121, 115, 105, 99, 115, 32, 73>>, (* "教養数学" *) <<25945, 39178, 25968, 23398>>, (* "Japanese for International Students" *) <<74, 97, 112, 97, 110, 101, 115, 101, 32, 102, 111, 114, 32, 73, 110, 116, 101, 114, 110, 97, 116, 105, 111, 110, 97, 108, 32, 83, 116, 117, 100, 101, 110, 116, 115>> }

\* Among them a value whose first letter is U+212A KELVIN SIGN, which lowers
\* to "k", and one in full-width capitals, which lower to full-width letters.
LanguagePool == { <<>>, (* "英語 / English" *) <<33521, 35486, 32, 47, 32, 69, 110, 103, 108, 105, 115, 104>>, (* "Latin" *) <<76, 97, 116, 105, 110>>, (* "KOREAN" *) <<8490, 79, 82, 69, 65, 78>>, (* "ＥＮＧＬＩＳＨ" *) <<65317, 65326, 65319, 65324, 65321, 65331, 65320>> }

Categories == {GeneralEducation, FacultyCourse}

InitClassify ==
    /\ pc = "call"
    /\ arg \in [fn : {"determine_course_category"}, faculty_names : FacultyLists,
                course_title : TitlePool]
            \cup [fn : {"derive_tags"}, category : Categories, faculty_names : FacultyLists,
                  course_title : TitlePool, instruction_language : LanguagePool]
    /\ ret = <<>>
    /\ all_records = <<>>
    /\ MainIdle

CallDetermineCourseCategory ==
    /\ pc = "call"
    /\ arg.fn = "determine_course_category"
    /\ ret' = determine_course_category(arg.faculty_names, arg.course_title)
    /\ pc' = "return"
    /\ UNCHANGED <<target, idx, all_records, output, err, arg>>

CallDeriveTags ==
    /\ pc = "call"
    /\ arg.fn = "derive_tags"
    /\ ret' = derive_tags(arg.category, arg.faculty_names, arg.course_title,
                          arg.instruction_language)
    /\ pc' = "return"
    /\ UNCHANGED <<target, idx, all_records, output, err, arg>>

NextClassify ==
    \/ CallDetermineCourseCategory
    \/ CallDeriveTags

SpecClassify == InitClassify /\ [][NextClassify]_vars

(***************************************************************************)
(* SpecIdentifier: parse_course_identifier.                                *)
(***************************************************************************)

\* "A", "b", space, ":", "：", line feed
IdentifierChars == {65, 98, 32, 58, 65306, 10}

\* The length of a raw identifier at most.
MaxIdentifierLen == 4

InitIdentifier ==
    /\ pc = "call"
    /\ arg \in [fn : {"parse_course_identifier"},
                value : SeqsUpTo(IdentifierChars, MaxIdentifierLen)]
    /\ ret = <<>>
    /\ all_records = <<>>
    /\ MainIdle

CallParseCourseIdentifier ==
    /\ pc = "call"
    /\ arg.fn = "parse_course_identifier"
    /\ ret' = parse_course_identifier(arg.value)
    /\ pc' = "return"
    /\ UNCHANGED <<target, idx, all_records, output, err, arg>>

NextIdentifier == CallParseCourseIdentifier

SpecIdentifier == InitIdentifier /\ [][NextIdentifier]_vars

(***************************************************************************)
(* SpecBuild: build_records on one page.                                   *)
(***************************************************************************)

IdentifierPool ==
    { (* "XYZ9：Physics I" *) <<88, 89, 90, 57, 65306, 80, 104, 121, 115, 105, 99, 115, 32, 73>>, (* "XYZ9 General Physics" *) <<88, 89, 90, 57, 32, 71, 101, 110, 101, 114, 97, 108, 32, 80, 104, 121, 115, 105, 99, 115>>, (* "Seminar" *) <<83, 101, 109, 105, 110, 97, 114>>, <<>>, (* "KY1:教養数学" *) <<75, 89, 49, 58, 25945, 39178, 25968, 23398>> }

FacultyCellPool ==
    { <<>>, (* "理学部、工学部" *) <<29702, 23398, 37096, 12289, 24037, 23398, 37096>>, (* "理学部 工学部,法学部" *) <<29702, 23398, 37096, 32, 24037, 23398, 37096, 44, 27861, 23398, 37096>>, (* "理学部、工学部、理学部" *) <<29702, 23398, 37096, 12289, 24037, 23398, 37096, 12289, 29702, 23398, 37096>>, (* "、理学部,, 工学部，法学部" *) <<12289, 29702, 23398, 37096, 44, 44, 32, 24037, 23398, 37096, 65292, 27861, 23398, 37096>>,
      (* "共通教育センター" *) <<20849, 36890, 25945, 32946, 12475, 12531, 12479, 12540>>, (* "理学部" *) <<29702, 23398, 37096>> }

LanguageCandidatesPool == { <<>>, <<None, <<>>, (* "英語 / English" *) <<33521, 35486, 32, 47, 32, 69, 110, 103, 108, 105, 115, 104>>>> }

TextbookTablePool ==
    { <<>>,
      <<TextbookHeader,
        <<Td((* "Algorithms" *) <<65, 108, 103, 111, 114, 105, 116, 104, 109, 115>>), Td((* "A. Author" *) <<65, 46, 32, 65, 117, 116, 104, 111, 114>>), Td((* "MIT Press" *) <<77, 73, 84, 32, 80, 114, 101, 115, 115>>), Td((* "123" *) <<49, 50, 51>>),
          Td((* "for international students" *) <<102, 111, 114, 32, 105, 110, 116, 101, 114, 110, 97, 116, 105, 111, 110, 97, 108, 32, 115, 116, 117, 100, 101, 110, 116, 115>>)>>,
        <<Td((* "Data Structures" *) <<68, 97, 116, 97, 32, 83, 116, 114, 117, 99, 116, 117, 114, 101, 115>>), Td((* "D. Author" *) <<68, 46, 32, 65, 117, 116, 104, 111, 114>>), Td(<<>>), Td((* "789" *) <<55, 56, 57>>), Td(<<>>)>>>>,
      <<<<Td((* "Mechanics" *) <<77, 101, 99, 104, 97, 110, 105, 99, 115>>), Td((* "B. Writer" *) <<66, 46, 32, 87, 114, 105, 116, 101, 114>>), Td((* "Springer" *) <<83, 112, 114, 105, 110, 103, 101, 114>>), Td((* "456" *) <<52, 53, 54>>),
          Td((* "留学生向け" *) <<30041, 23398, 29983, 21521, 12369>>), Td((* "extra" *) <<101, 120, 116, 114, 97>>)>>,
        <<Td((* "Optics" *) <<79, 112, 116, 105, 99, 115>>)>>,
        <<Td(<<>>)>>,
        <<>>>>,
      <<<<Th((* "タイトル" *) <<12479, 12452, 12488, 12523>>), Th((* "読み" *) <<35501, 12415>>), Th((* "Author" *) <<65, 117, 116, 104, 111, 114>>)>>,
        <<Td((* "細雪" *) <<32048, 38634>>), Td((* "ささめゆき" *) <<12373, 12373, 12417, 12422, 12365>>), Td((* "谷崎" *) <<35895, 23822>>)>>>> }

BuildPages ==
    { Soup(TRUE, <<HeaderRow, CourseRow(identifier, faculties)>>,
           <<(* "衣笠" *) <<34915, 31520>>>>, <<>>, language, TRUE, TRUE, rows)
        : identifier \in IdentifierPool, faculties \in FacultyCellPool,
          language \in LanguageCandidatesPool, rows \in TextbookTablePool }
        \cup {PageNoCourseTable, PageOneCourseRow, PageNoCourseCells, PageNoTextbooks}

InitBuild ==
    /\ pc = "call"
    /\ arg \in [fn : {"build_records"}, soup : BuildPages]
    /\ ret = <<>>
    /\ all_records = <<>>
    /\ MainIdle

CallBuildRecords ==
    /\ pc = "call"
    /\ arg.fn = "build_records"
    /\ ret' = build_records(arg.soup)
    /\ pc' = "return"
    /\ UNCHANGED <<target, idx, all_records, output, err, arg>>

NextBuild == CallBuildRecords

SpecBuild == InitBuild /\ [][NextBuild]_vars

(***************************************************************************)
(* SpecAnnotate: the annotator passes on a record list, each pass any      *)
(* number of times in any order.  all_records is the list the passes       *)
(* mutate; arg.records is the list as it was before the last pass,         *)
(* ret.last the last pass and ret.done the passes that ran before it.      *)
(***************************************************************************)

AnnotatedRecord(course_code, course_title, faculty_names, course_category, note) ==
    TextbookRecord(course_code, course_title, <<>>, faculty_names, (* "Algorithms" *) <<65, 108, 103, 111, 114, 105, 116, 104, 109, 115>>,
                   <<>>, <<>>, <<>>, note, course_category, course_category,
                   <<>>, <<>>, <<>>, <<>>, <<>>, <<>>, <<>>)

RecordPool ==
    { AnnotatedRecord((* "XYZ9" *) <<88, 89, 90, 57>>, (* "Physics I" *) <<80, 104, 121, 115, 105, 99, 115, 32, 73>>, <<(* "理学部" *) <<29702, 23398, 37096>>, (* "工学部" *) <<24037, 23398, 37096>>>>, FacultyCourse, <<>>),
      AnnotatedRecord((* "XYZ9" *) <<88, 89, 90, 57>>, (* "General Physics" *) <<71, 101, 110, 101, 114, 97, 108, 32, 80, 104, 121, 115, 105, 99, 115>>, <<(* "理学部" *) <<29702, 23398, 37096>>>>, FacultyCourse, (* "memo" *) <<109, 101, 109, 111>>),
      AnnotatedRecord((* "XYZ9" *) <<88, 89, 90, 57>>, (* "Applied Physics" *) <<65, 112, 112, 108, 105, 101, 100, 32, 80, 104, 121, 115, 105, 99, 115>>, <<>>, GeneralEducation,
                      (* "別名称: General Physics / Physics I" *) <<21029, 21517, 31216, 58, 32, 71, 101, 110, 101, 114, 97, 108, 32, 80, 104, 121, 115, 105, 99, 115, 32, 47, 32, 80, 104, 121, 115, 105, 99, 115, 32, 73>>),
      AnnotatedRecord(<<>>, (* "Physics I" *) <<80, 104, 121, 115, 105, 99, 115, 32, 73>>, <<(* "工学部" *) <<24037, 23398, 37096>>, (* "理学部" *) <<29702, 23398, 37096>>, (* "工学部" *) <<24037, 23398, 37096>>>>, FacultyCourse,
                      (* "別名称: General Physics" *) <<21029, 21517, 31216, 58, 32, 71, 101, 110, 101, 114, 97, 108, 32, 80, 104, 121, 115, 105, 99, 115>>),
      AnnotatedRecord((* "AB1" *) <<65, 66, 49>>, (* "Law" *) <<76, 97, 119>>, <<(* "法学部" *) <<27861, 23398, 37096>>>>, GeneralEducation, (* "教養・共通科目" *) <<25945, 39178, 12539, 20849, 36890, 31185, 30446>>),
      AnnotatedRecord((* "AB1" *) <<65, 66, 49>>, (* "Law" *) <<76, 97, 119>>, <<(* "法学部" *) <<27861, 23398, 37096>>, (* "法学部" *) <<27861, 23398, 37096>>>>, FacultyCourse, <<>>),
      AnnotatedRecord((* "XYZ9" *) <<88, 89, 90, 57>>, (* "Physics I" *) <<80, 104, 121, 115, 105, 99, 115, 32, 73>>, <<(* "法学部" *) <<27861, 23398, 37096>>, (* "工学部" *) <<24037, 23398, 37096>>, (* "理学部" *) <<29702, 23398, 37096>>>>,
                      GeneralEducation, (* "複数学部向け: 工学部, 法学部" *) <<35079, 25968, 23398, 37096, 21521, 12369, 58, 32, 24037, 23398, 37096, 44, 32, 27861, 23398, 37096>>) }

\* The number of records in the list at most.
MaxRecords == 3

InitAnnotate ==
    /\ pc = "annotate"
    /\ all_records \in SeqsUpTo(RecordPool, MaxRecords) \ {<<>>}
    /\ arg = [fn |-> "annotate", records |-> <<>>]
    /\ ret = [last |-> "none", done |-> {}]
    /\ MainIdle

Ran(pass) ==
    /\ arg' = [arg EXCEPT !.records = all_records]
    /\ ret' = [last |-> pass, done |-> IF ret.last = "none" THEN {} ELSE ret.done \cup {ret.last}]
    /\ UNCHANGED <<pc, target, idx, output, err>>

CallAnnotateAliases ==
    /\ pc = "annotate"
    /\ all_records' = annotate_aliases(all_records)
    /\ Ran("annotate_aliases")

CallAnnotateFacultyScope ==
    /\ pc = "annotate"
    /\ all_records' = annotate_faculty_scope(all_records)
    /\ Ran("annotate_faculty_scope")

NextAnnotate ==
    \/ CallAnnotateAliases
    \/ CallAnnotateFacultyScope

SpecAnnotate == InitAnnotate /\ [][NextAnnotate]_vars

(***************************************************************************)
(* Properties of main (Spec).                                              *)
(***************************************************************************)

InputFiles == iter_html_files(target)

\* The course-info table is present and has at least two rows.
WellFormedPage(soup) == soup.course_table /\ Len(soup.course_rows) >= 2

\* The records a page yields, none when it cannot be parsed.
PageRecords(soup) ==
    IF build_records(soup).raised THEN <<>> ELSE build_records(soup).records

RECURSIVE ConcatRecords(_)
ConcatRecords(files) ==
    IF files = <<>> THEN <<>>
    ELSE PageRecords(Head(files).soup) \o ConcatRecords(Tail(files))

\* The records of every input page, in processing order.
BatchRecords == ConcatRecords(InputFiles)

BatchIsGood ==
    /\ \A i \in 1..Len(InputFiles) : WellFormedPage(InputFiles[i].soup)
    /\ BatchRecords # <<>>

OutputWritten == output \notin InitialOutputs

C1_State ==
    /\ (OutputWritten \/ pc = "done") => BatchIsGood
    /\ ~BatchIsGood => pc \in {"scan", "failed"} /\ ~OutputWritten
    /\ pc = "scan" => idx \in 1..(Len(InputFiles) + 1)

C1_Step ==
    /\ output' # output => pc = "write_csv" /\ BatchIsGood
    /\ pc' = "failed" /\ ~BatchIsGood => output' = output
    /\ pc = "scan" /\ pc' = "scan" => idx' = idx + 1
    /\ pc = "failed" => pc' = "failed"

\* C1: the output file is written only when every page has its course-info
\* table with at least two rows and the batch holds at least one record; a
\* run over a batch with a malformed page or with no record at all never
\* reaches annotation, its scan moves on by one page per turn until it fails,
\* and failure is final with the output file left as it was, whatever earlier
\* pages had produced.  (Only write_csv touches the file, so a run that
\* fails there, over a good batch, is the one failure that can leave a file.)
C1_OutputOnlyForGoodBatch == [] C1_State /\ [][C1_Step]_vars

\* A run that had collected records when a malformed page stopped it, the
\* stale output file untouched.
C1_Witness ==
    /\ pc = "failed"
    /\ err = "ValueError"
    /\ all_records # <<>>
    /\ output = StaleOutput

Annotating == pc \in {"annotate_aliases", "annotate_faculty_scope", "write_csv", "done"}

\* A record list with the notes blanked.
WithoutNotes(records) == [i \in 1..Len(records) |-> [records[i] EXCEPT !.note = <<>>]]

C2_State ==
    /\ Annotating => idx > Len(InputFiles)
    /\ pc = "annotate_aliases" => all_records = BatchRecords
    /\ pc = "annotate_faculty_scope" => all_records = annotate_aliases(BatchRecords)
    /\ pc \in {"write_csv", "done"} =>
            all_records = annotate_faculty_scope(annotate_aliases(BatchRecords))
    /\ pc = "failed" => (OutputWritten <=> err = "UnicodeEncodeError")
    /\ OutputWritten =>
            /\ pc \in {"done", "failed"}
            /\ all_records = annotate_faculty_scope(annotate_aliases(BatchRecords))
            /\ output = write_csv(all_records, NoFile).file

C2_Step == Annotating => WithoutNotes(all_records') = WithoutNotes(all_records)

\* C2: annotation starts only once the loop has passed every input page and
\* all_records holds the records of all of them; the alias pass runs on that
\* list, the faculty-scope pass on its result, and the file is written from
\* the result of both; from the start of annotation on no record is added,
\* removed or changed other than in its note.
C2_AnnotationAfterFullBatch == [] C2_State /\ [][C2_Step]_vars

\* A finished run over two pages whose records the alias pass annotated.
C2_Witness ==
    /\ pc = "done"
    /\ Len(InputFiles) >= 2
    /\ PageRecords(InputFiles[1].soup) # <<>>
    /\ PageRecords(InputFiles[2].soup) # <<>>
    /\ \E i \in 1..Len(all_records) : Contains(all_records[i].note, (* "別名称: " *) <<21029, 21517, 31216, 58, 32>>)

(***************************************************************************)
(* Properties of the annotator passes (SpecAnnotate).                      *)
(***************************************************************************)

\* The titles other than its own that record i's code carries in the list.
OtherTitles(records, i) ==
    {records[j].course_title :
        j \in {k \in 1..Len(records) : records[k].course_code = records[i].course_code}}
        \ {records[i].course_title}

\* C3: after the alias pass, a record with a code that carries more than
\* one title in the list has a note containing the alias fragment that
\* lists the other titles, sorted; every other record's note is as before.
C3_AliasNotes ==
    ret.last = "annotate_aliases" =>
        /\ Len(all_records) = Len(arg.records)
        /\ \A i \in 1..Len(all_records) :
            IF arg.records[i].course_code # <<>> /\ OtherTitles(arg.records, i) # {}
            THEN Contains(all_records[i].note,
                          (* "別名称: " *) <<21029, 21517, 31216, 58, 32>> \o Join((* " / " *) <<32, 47, 32>>, Sorted(OtherTitles(arg.records, i))))
            ELSE all_records[i].note = arg.records[i].note

\* The alias pass wrote a fragment of two other titles on a record.
C3_Witness ==
    /\ ret.last = "annotate_aliases"
    /\ \E i \in 1..Len(all_records) :
        /\ Cardinality(OtherTitles(arg.records, i)) = 2
        /\ all_records[i].note # arg.records[i].note

\* C4: a pass that has run before on the list changes nothing when it runs
\* again, whichever passes ran in between: the alias pass twice, the
\* faculty-scope pass twice, and both passes in sequence a second time each
\* leave every record as the first run left it.
C4_PassesIdempotent == ret.last \in ret.done => all_records = arg.records

\* The alias pass ran a second time on a list in which it had appended a
\* fragment to a note the first time.
C4_Witness ==
    /\ ret.last = "annotate_aliases"
    /\ "annotate_aliases" \in ret.done
    /\ \E i \in 1..Len(all_records) : Contains(all_records[i].note, (* " / 別名称: " *) <<32, 47, 32, 21029, 21517, 31216, 58, 32>>)

(***************************************************************************)
(* Properties of build_records (SpecBuild).                                *)
(***************************************************************************)

Built == pc = "return" /\ arg.fn = "build_records" /\ ~ret.raised

\* C5: build_records emits one record per textbook entry, in order, with
\* the entry's title, reading, authors, publisher, isbn and note.
C5_TextbookFieldsCopied ==
    Built =>
        /\ Len(ret.records) = Len(extract_textbooks(arg.soup))
        /\ \A i \in 1..Len(ret.records) :
            /\ ret.records[i].textbook_title = extract_textbooks(arg.soup)[i].title
            /\ ret.records[i].textbook_title_reading = extract_textbooks(arg.soup)[i].reading
            /\ ret.records[i].authors = extract_textbooks(arg.soup)[i].authors
            /\ ret.records[i].publisher = extract_textbooks(arg.soup)[i].publisher
            /\ ret.records[i].isbn = extract_textbooks(arg.soup)[i].isbn
            /\ ret.records[i].note = extract_textbooks(arg.soup)[i].note

\* The faculty names of the page under test.
PageFaculties == normalize_name_list(get_cell(arg.soup.course_rows[2], 4))

\* The course title the page's records carry.
PageTitle == ResolvedCourseTitle(extract_course_metadata(arg.soup))

\* The tags of the page: derive_tags on the page's category and metadata.
PageBaseTags ==
    derive_tags(determine_course_category(PageFaculties, PageTitle), PageFaculties,
                PageTitle, extract_section_text(arg.soup.language))

\* The components of a comma-joined value.
Components(value) == Tokens(value, {44})

TwoPlainFaculties ==
    /\ Cardinality(SeqToSet(PageFaculties)) = 2
    /\ \A i \in 1..Len(PageFaculties) :
        ~AnyKeywordIn(GENERAL_FACULTY_KEYWORDS, PageFaculties[i])

IsFacultyCourseWithMultiFaculty(record) ==
    /\ record.course_category = FacultyCourse
    /\ FacultyCourse \in SeqToSet(Components(record.tag_names))
    /\ MultiFaculty \in SeqToSet(Components(record.tag_names))

\* tag_names is the page's tags, with international-student when the
\* textbook's note matches, sorted and comma-joined; the records of a page
\* share the category and differ in tag_names by international-student only.
C8_TagNames ==
    /\ \A i \in 1..Len(ret.records) :
        ret.records[i].tag_names =
            Join((* "," *) <<44>>, Sorted(SeqToSet(PageBaseTags)
                                \cup (IF detect_international_course(ret.records[i].note)
                                      THEN {InternationalStudent} ELSE {})))
    /\ \A i, j \in 1..Len(ret.records) :
        /\ ret.records[i].course_category = ret.records[j].course_category
        /\ SeqToSet(Components(ret.records[i].tag_names)) \ {InternationalStudent}
             = SeqToSet(Components(ret.records[j].tag_names)) \ {InternationalStudent}

\* C8: every record's tag_names is the sorted, comma-joined union of the
\* page's base tags and international-student when its own note matches the
\* detector, so the records of a page share their category and differ in
\* tag_names by international-student at most; and the records of a page
\* with two distinct faculties, where no general-education keyword matches
\* (neither a faculty keyword in a faculty name nor a title keyword in the
\* course title), are faculty-course and tagged faculty-course and
\* multi-faculty.
C8_TagNamesAndCategory ==
    Built =>
        /\ C8_TagNames
        /\ TwoPlainFaculties /\ ~AnyKeywordIn(GENERAL_TITLE_KEYWORDS, PageTitle) =>
              \A i \in 1..Len(ret.records) : IsFacultyCourseWithMultiFaculty(ret.records[i])

\* Two records of a two-faculty page, one of them tagged international-student
\* for its note.
C8_Witness ==
    /\ Built
    /\ TwoPlainFaculties
    /\ Len(ret.records) = 2
    /\ IsFacultyCourseWithMultiFaculty(ret.records[1])
    /\ InternationalStudent \in SeqToSet(Components(ret.records[1].tag_names))
    /\ InternationalStudent \notin SeqToSet(Components(ret.records[2].tag_names))

\* The code and title parsed from the page's identifier cell.
PageIdentifier == parse_course_identifier(get_cell(arg.soup.course_rows[2], 0))

\* C9: every record's course_title is not empty: it is the parsed title
\* when that is not empty, else the course code when that is not empty,
\* else "Untitled Course".
C9_CourseTitleResolved ==
    Built =>
        \A i \in 1..Len(ret.records) :
            /\ ret.records[i].course_title # <<>>
            /\ ret.records[i].course_title =
                   IF PageIdentifier[2] # <<>> THEN PageIdentifier[2]
                   ELSE IF PageIdentifier[1] # <<>> THEN PageIdentifier[1]
                   ELSE (* "Untitled Course" *) <<85, 110, 116, 105, 116, 108, 101, 100, 32, 67, 111, 117, 114, 115, 101>>

\* A record of a page whose identifier cell is empty.
C9_Witness ==
    /\ Built
    /\ ret.records # <<>>
    /\ PageIdentifier = <<<<>>, <<>>>>
    /\ ret.records[1].course_title = (* "Untitled Course" *) <<85, 110, 116, 105, 116, 108, 101, 100, 32, 67, 111, 117, 114, 115, 101>>

(***************************************************************************)
(* Properties of the classifier (SpecClassify).                            *)
(***************************************************************************)

\* The faculty names of a call: the entries trimmed, the blank ones left out.
NamesGiven == {Strip(name) : name \in SeqToSet(arg.faculty_names)} \ {<<>>}

\* C6: determine_course_category returns general-education exactly when
\* there are no faculty names, or a name contains a general-education
\* faculty keyword, or there are three or more distinct names, or the title
\* contains a general-education title keyword; else it returns
\* faculty-course.  (The four rules give the same result, so the order in
\* which they are tried does not show.)
C6_CategoryRules ==
    (pc = "return" /\ arg.fn = "determine_course_category") =>
        /\ ret \in {GeneralEducation, FacultyCourse}
        /\ ret = GeneralEducation <=>
            \/ NamesGiven = {}
            \/ \E name \in NamesGiven : AnyKeywordIn(GENERAL_FACULTY_KEYWORDS, name)
            \/ Cardinality(NamesGiven) >= 3
            \/ AnyKeywordIn(GENERAL_TITLE_KEYWORDS, arg.course_title)

\* Three names, two distinct values: faculty-course.
C6_Witness ==
    /\ pc = "return"
    /\ arg.fn = "determine_course_category"
    /\ Len(arg.faculty_names) = 3
    /\ Cardinality(SeqToSet(arg.faculty_names)) = 2
    /\ Cardinality(NamesGiven) = 2
    /\ ret = FacultyCourse

\* C7: derive_tags returns, sorted and without duplicates, the category;
\* multi-faculty iff more than one distinct faculty name is given and the
\* category is not general-education; international-student iff the title
\* matches the international-course detector; lang:<tag> iff the language
\* normalizer resolves a tag.  (The result is a function of the arguments,
\* so two calls agree; what can fail is the order, which is checked.)
C7_DerivedTags ==
    (pc = "return" /\ arg.fn = "derive_tags") =>
        /\ \A i \in 1..(Len(ret) - 1) : StrLess(ret[i], ret[i + 1])
        /\ arg.category \in SeqToSet(ret)
        /\ MultiFaculty \in SeqToSet(ret) <=>
              /\ Cardinality(SeqToSet(arg.faculty_names) \ {<<>>}) > 1
              /\ arg.category # GeneralEducation
        /\ InternationalStudent \in SeqToSet(ret) <=>
              detect_international_course(arg.course_title)
        /\ \A tag \in SeqToSet(ret) :
              \/ tag \in {arg.category, MultiFaculty, InternationalStudent}
              \/ /\ normalize_language_tag(arg.instruction_language) # None
                 /\ tag = (* "lang:" *) <<108, 97, 110, 103, 58>> \o normalize_language_tag(arg.instruction_language)
        /\ normalize_language_tag(arg.instruction_language) # None =>
              ((* "lang:" *) <<108, 97, 110, 103, 58>> \o normalize_language_tag(arg.instruction_language)) \in SeqToSet(ret)

\* A call that returns all four kinds of tag.
C7_Witness ==
    /\ pc = "return"
    /\ arg.fn = "derive_tags"
    /\ ret = <<FacultyCourse, InternationalStudent, (* "lang:english" *) <<108, 97, 110, 103, 58, 101, 110, 103, 108, 105, 115, 104>>, MultiFaculty>>

(***************************************************************************)
(* Properties of parse_course_identifier (SpecIdentifier).                 *)
(***************************************************************************)

\* value starts with a token free of whitespace and colons, a colon and
\* at least one more character of the same line.
MatchesColonPattern(value) ==
    \E k \in 1..(Len(value) - 2) :
        /\ \A i \in 1..k : IsCodeChar(value[i])
        /\ value[k + 1] \in Colons
        /\ value[k + 2] # 10

\* Splitting value on its first whitespace run gives two parts: there is
\* whitespace between two of its other characters.
SplitsInTwo(value) == \E i \in 1..Len(Strip(value)) : Strip(value)[i] \in WhiteSpace

NeitherPatternNorSplit ==
    /\ pc = "return"
    /\ arg.fn = "parse_course_identifier"
    /\ ~MatchesColonPattern(arg.value)
    /\ ~SplitsInTwo(arg.value)

\* C10 as stated: an identifier that neither matches the colon pattern nor
\* splits in two is returned, trimmed, as the title, with an empty code.
C10_AsStated == NeitherPatternNorSplit => ret = <<<<>>, Strip(arg.value)>>

\* C10 (amended): an identifier that neither matches the colon pattern nor
\* splits in two is returned, trimmed, as the code (the first component),
\* with an empty title (the second).
C10_Amended == NeitherPatternNorSplit => ret = <<Strip(arg.value), <<>>>>

\* A padded single token came back trimmed, in the first position.
C10_Witness ==
    /\ NeitherPatternNorSplit
    /\ Strip(arg.value) # <<>>
    /\ Strip(arg.value) # arg.value
    /\ ret[1] = Strip(arg.value)

(***************************************************************************)
(* C11: the three cases of parse_course_identifier (SpecIdentifier).       *)
(***************************************************************************)

Parsed == pc = "return" /\ arg.fn = "parse_course_identifier"

\* The length of the token value starts with when a colon follows it
\* immediately and text follows the colon, else 0.
TokenBeforeColon(value) ==
    LET ends == {k \in 1..(Len(value) - 2) :
                    /\ \A i \in 1..k : IsCodeChar(value[i])
                    /\ value[k + 1] \in Colons}
    IN  IF ends = {} THEN 0 ELSE Min(ends)

\* The first whitespace of the trimmed value, 0 when it has none.
FirstGap(value) ==
    LET gaps == {i \in 1..Len(Strip(value)) : Strip(value)[i] \in WhiteSpace}
    IN  IF gaps = {} THEN 0 ELSE Min(gaps)

\* The pair the three cases describe for value.
PairAsDescribed(value) ==
    IF TokenBeforeColon(value) > 0
    THEN <<SubSeq(value, 1, TokenBeforeColon(value)),
           Strip(SubSeq(value, TokenBeforeColon(value) + 2, Len(value)))>>
    ELSE IF FirstGap(value) > 0
    THEN <<SubSeq(Strip(value), 1, FirstGap(value) - 1),
           Strip(SubSeq(Strip(value), FirstGap(value), Len(Strip(value))))>>
    ELSE <<Strip(value), <<>>>>

HasLineFeed(value) == \E i \in 1..Len(value) : value[i] = 10

\* C11: parse_course_identifier returns a pair of strings: the token and the
\* trimmed remainder when the value starts with a token that a colon and
\* further text follow, else the first part and the rest when the value
\* splits in two on its first whitespace run, else the value itself and an
\* empty second component.
C11_PairAsDescribed ==
    Parsed => Len(ret) = 2 /\ ret = PairAsDescribed(arg.value)

\* The same, for the values that hold no line feed.
C11_OnOneLine ==
    Parsed /\ ~HasLineFeed(arg.value) => Len(ret) = 2 /\ ret = PairAsDescribed(arg.value)

(***************************************************************************)
(* SpecTextbooks: extract_textbooks on one page.                           *)
(***************************************************************************)

\* The texts of the cells of the textbook tables under test.
TextbookCellTexts == {<<>>, (* "A" *) <<65>>, (* "B" *) <<66>>}

\* Data rows: no cell, one cell, two cells, and a row longer than the
\* positional fallback reaches.
TextbookRowPool ==
    {<<>>}
        \cup {<<Td(a)>> : a \in TextbookCellTexts}
        \cup {<<Td(a), Td(b)>> : a, b \in TextbookCellTexts}
        \cup {<<Td((* "Mechanics" *) <<77, 101, 99, 104, 97, 110, 105, 99, 115>>), Td((* "B. Writer" *) <<66, 46, 32, 87, 114, 105, 116, 101, 114>>), Td((* "Springer" *) <<83, 112, 114, 105, 110, 103, 101, 114>>), Td((* "456" *) <<52, 53, 54>>), Td((* "留学生向け" *) <<30041, 23398, 29983, 21521, 12369>>), Td((* "extra" *) <<101, 120, 116, 114, 97>>)>>}

\* Header rows: the five known labels, an unknown label before the title
\* label, two labels of the same field, a header cell among plain cells, an
\* unknown label in the authors' position after the authors' label, and a
\* header shorter than the rows.
TextbookHeaderPool ==
    { TextbookHeader,
      <<Th((* "No" *) <<78, 111>>), Th((* "書名" *) <<26360, 21517>>)>>,
      <<Th((* "書名" *) <<26360, 21517>>), Th((* "Name" *) <<78, 97, 109, 101>>)>>,
      <<Td((* "著者" *) <<33879, 32773>>), Th((* "タイトル" *) <<12479, 12452, 12488, 12523>>)>>,
      <<Th((* "著者" *) <<33879, 32773>>), Th((* "No" *) <<78, 111>>), Th((* "書名" *) <<26360, 21517>>)>>,
      <<Th((* "Title" *) <<84, 105, 116, 108, 101>>)>> }

\* The number of data rows of a table at most.
MaxTextbookRows == 2

TextbookTables ==
    {data : data \in SeqsUpTo(TextbookRowPool, MaxTextbookRows)}
        \cup {<<header>> \o data : header \in TextbookHeaderPool,
                                    data \in SeqsUpTo(TextbookRowPool, MaxTextbookRows)}

\* A page with its textbook section as given.
TextbookPage(heading, table, rows) ==
    Soup(TRUE, <<HeaderRow, CourseRow((* "XYZ9：Physics I" *) <<88, 89, 90, 57, 65306, 80, 104, 121, 115, 105, 99, 115, 32, 73>>, (* "理学部" *) <<29702, 23398, 37096>>)>>,
         <<>>, <<>>, <<>>, heading, table, rows)

TextbookPages ==
    {TextbookPage(TRUE, TRUE, rows) : rows \in TextbookTables}
        \cup {TextbookPage(FALSE, FALSE, <<>>), TextbookPage(TRUE, FALSE, <<>>),
              TextbookPage(FALSE, TRUE, <<TextbookHeader, <<Td((* "A" *) <<65>>), Td((* "B" *) <<66>>)>>>>)}

InitTextbooks ==
    /\ pc = "call"
    /\ arg \in [fn : {"extract_textbooks"}, soup : TextbookPages]
    /\ ret = <<>>
    /\ all_records = <<>>
    /\ MainIdle

CallExtractTextbooks ==
    /\ pc = "call"
    /\ arg.fn = "extract_textbooks"
    /\ ret' = extract_textbooks(arg.soup)
    /\ pc' = "return"
    /\ UNCHANGED <<target, idx, all_records, output, err, arg>>

NextTextbooks == CallExtractTextbooks

SpecTextbooks == InitTextbooks /\ [][NextTextbooks]_vars

(***************************************************************************)
(* C12: the entries of extract_textbooks (SpecTextbooks).                  *)
(***************************************************************************)

Extracted == pc = "return" /\ arg.fn = "extract_textbooks"

\* The table has a header row: a th cell in its first row.
HasHeaderRow(soup) ==
    /\ soup.textbook_rows # <<>>
    /\ \E i \in 1..Len(soup.textbook_rows[1]) : soup.textbook_rows[1][i].name = "th"

\* The field of each column as the header row gives it, <<>> without one.
HeaderMapOf(soup) ==
    IF HasHeaderRow(soup)
    THEN [i \in 1..Len(soup.textbook_rows[1]) |->
             normalize_textbook_header(soup.textbook_rows[1][i].text)]
    ELSE <<>>

\* The rows below the header row, every row without one.
DataRowsOf(soup) ==
    IF ~soup.textbook_heading \/ ~soup.textbook_table THEN <<>>
    ELSE IF HasHeaderRow(soup) THEN Tail(soup.textbook_rows)
    ELSE soup.textbook_rows

\* The title a data row resolves to, trimmed.
ResolvedTitle(soup, row) ==
    Strip(ValueOr(RowValues(row, HeaderMapOf(soup), 0, EmptyValues), "title"))

\* The data rows that resolve to a title, in row order.
TitledRows(soup) == SelectSeq(DataRowsOf(soup), LAMBDA row : ResolvedTitle(soup, row) # <<>>)

\* C12: extract_textbooks returns one entry for each data row whose resolved
\* title is not empty after trimming, in row order, and nothing else: as many
\* entries as rows when every row has a title, none for a page without the
\* textbook heading or without a table after it.
C12_OneEntryPerTitledRow ==
    Extracted =>
        /\ Len(ret) = Len(TitledRows(arg.soup))
        /\ \A i \in 1..Len(ret) : ret[i].title = ResolvedTitle(arg.soup, TitledRows(arg.soup)[i])
        /\ (\A i \in 1..Len(DataRowsOf(arg.soup)) :
                ResolvedTitle(arg.soup, DataRowsOf(arg.soup)[i]) # <<>>)
              => Len(ret) = Len(DataRowsOf(arg.soup))
        /\ ~arg.soup.textbook_heading \/ ~arg.soup.textbook_table => ret = <<>>

\* Two data rows under a header row, the first without a title: the one
\* entry is the second row's.
C12_Witness ==
    /\ Extracted
    /\ HasHeaderRow(arg.soup)
    /\ Len(DataRowsOf(arg.soup)) = 2
    /\ ResolvedTitle(arg.soup, DataRowsOf(arg.soup)[1]) = <<>>
    /\ Len(ret) = 1
    /\ ret[1].title = ResolvedTitle(arg.soup, DataRowsOf(arg.soup)[2])

(***************************************************************************)
(* C13: multi-valued columns survive the Preparer's split (SpecBuild).     *)
(***************************************************************************)

\* normalize_value of the Preparer
normalize_value(value) == IF value = None THEN <<>> ELSE Strip(value)

\* split_multi_value of the Preparer: value.split(","), blank parts dropped,
\* the others trimmed.
split_multi_value(value) ==
    IF value = None \/ value = <<>> THEN <<>>
    ELSE LET parts == DropBlank(Tokens(value, {44}))
         IN  [i \in 1..Len(parts) |-> normalize_value(parts[i])]

\* A component a comma-joined value can carry: not empty, no ASCII comma, no
\* whitespace around it.
IsCleanComponent(name) ==
    /\ name # <<>>
    /\ Strip(name) = name
    /\ \A i \in 1..Len(name) : name[i] # 44

\* The tags of a record: the page's tags, with international-student when
\* the record's note matches the detector, sorted.
RecordTags(record) ==
    Sorted(SeqToSet(PageBaseTags)
             \cup (IF detect_international_course(record.note)
                   THEN {InternationalStudent} ELSE {}))

\* C13: in every record of build_records each faculty name and each tag is
\* non-empty, free of ASCII commas and of surrounding whitespace, and
\* split_multi_value gives back the faculty names from the faculty_names
\* column of the record's row and the tags from its tag_names column.
C13_ComponentsSurviveSplit ==
    Built =>
        \A i \in 1..Len(ret.records) :
            /\ \A k \in 1..Len(ret.records[i].faculty_names) :
                   IsCleanComponent(ret.records[i].faculty_names[k])
            /\ \A k \in 1..Len(RecordTags(ret.records[i])) :
                   IsCleanComponent(RecordTags(ret.records[i])[k])
            /\ split_multi_value(to_csv_row(ret.records[i])[15]) = ret.records[i].faculty_names
            /\ split_multi_value(to_csv_row(ret.records[i])[17]) = RecordTags(ret.records[i])

\* A record of a page whose faculty cell held commas, doubled and leading
\* separators and a space, with three faculty names and several tags.
C13_Witness ==
    /\ Built
    /\ \E k \in 1..Len(get_cell(arg.soup.course_rows[2], 4)) :
           get_cell(arg.soup.course_rows[2], 4)[k] = 44
    /\ \E i \in 1..Len(ret.records) :
        /\ Len(ret.records[i].faculty_names) = 3
        /\ Len(split_multi_value(ret.records[i].tag_names)) >= 2

(***************************************************************************)
(* C14: the header row of the output file (Spec).                          *)
(***************************************************************************)

\* The column names in the order the claim lists them.
ColumnsAsListed ==
    << "textbook_title", "textbook_title_reading", "authors", "publisher",
       "publication_year", "isbn", "course_title", "course_code",
       "academic_year", "term", "schedule", "classroom", "credits",
       "instructors", "faculty_names", "campus", "tag_names",
       "course_category", "instruction_language", "note" >>

\* write_csv has written the file at parsed.output, to the end or up to a
\* row it could not encode.
Written == pc \in {"done", "failed"} /\ output \notin InitialOutputs

\* C14 as stated: the header row written by write_csv has exactly 19
\* columns, the listed names in the listed order.
C14_AsStated ==
    Written => Len(output.header) = 19 /\ output.header = ColumnsAsListed

\* C14 (amended): the header row written by write_csv has exactly 20
\* columns, the listed names in the listed order.
C14_Amended ==
    Written => Len(output.header) = 20 /\ output.header = ColumnsAsListed

\* A written file: the twenty-column header row and at least two data rows.
C14_Witness ==
    /\ Written
    /\ Len(output.header) = 20
    /\ output.header[5] = "publication_year"
    /\ Len(output.rows) >= 2

(***************************************************************************)
(* C15: pages without textbooks, and the order of the records (Spec).      *)
(***************************************************************************)

\* A well-formed page without the textbook heading or without a table
\* after it.
HasNoTextbookTable(soup) ==
    WellFormedPage(soup) /\ (~soup.textbook_heading \/ ~soup.textbook_table)

\* The titles of a record list.
TitlesOf(records) == [i \in 1..Len(records) |-> records[i].textbook_title]

\* The titles of the textbook rows of the given files' pages, file by file,
\* each page's in row order; nothing for a page that cannot be parsed.
RECURSIVE RowTitles(_)
RowTitles(files) ==
    IF files = <<>> THEN <<>>
    ELSE (IF WellFormedPage(Head(files).soup)
          THEN [i \in 1..Len(extract_textbooks(Head(files).soup)) |->
                   extract_textbooks(Head(files).soup)[i].title]
          ELSE <<>>) \o RowTitles(Tail(files))

C15_State ==
    /\ \A i, j \in 1..Len(InputFiles) : i < j => StrLess(InputFiles[i].name, InputFiles[j].name)
    /\ pc = "scan" => TitlesOf(all_records) = RowTitles(SubSeq(InputFiles, 1, idx - 1))
    /\ Annotating => TitlesOf(all_records) = RowTitles(InputFiles)

C15_Step ==
    pc = "scan" /\ idx <= Len(InputFiles) /\ InputFiles[idx].exists
                /\ HasNoTextbookTable(InputFiles[idx].soup)
        => pc' = "scan" /\ idx' = idx + 1 /\ all_records' = all_records

\* C15: a well-formed page without the textbook heading or table adds no
\* record and the loop goes on to the next file; the files are taken in the
\* order of their names, and the record list is, file by file in that order,
\* the records of each page in the order of its table rows.
C15_RecordsInFileAndRowOrder == [] C15_State /\ [][C15_Step]_vars

\* A finished run over two files, the first a page without textbooks, the
\* second a page with two textbook rows.
C15_Witness ==
    /\ pc = "done"
    /\ Len(InputFiles) = 2
    /\ HasNoTextbookTable(InputFiles[1].soup)
    /\ Len(extract_textbooks(InputFiles[2].soup)) = 2
    /\ Len(all_records) = 2

(***************************************************************************)
(* C16: which column gives a field its value (SpecTextbooks).              *)
(***************************************************************************)

\* The column at index (counted from 0) is mapped by the header row.
IsHeaderMapped(header_map, index) ==
    index < Len(header_map) /\ header_map[index + 1] # "None"

\* The field the column at index writes: the header's, else the one of its
\* position, "None" when it writes nothing.
FieldWritten(header_map, index) ==
    IF IsHeaderMapped(header_map, index) THEN header_map[index + 1]
    ELSE PositionalField(index)

\* The columns of row that write field.
Writers(row, header_map, field) ==
    {index \in 0..(Len(row) - 1) : FieldWritten(header_map, index) = field}

HeaderWriters(row, header_map, field) ==
    {index \in Writers(row, header_map, field) : IsHeaderMapped(header_map, index)}

\* The value of field in an entry, as the column at index gives it.
ValueFrom(row, field, index) ==
    IF field = "title" THEN Strip(row[index + 1].text) ELSE row[index + 1].text

\* The value of field when the first column writing it decides.
FirstWriterValue(row, header_map, field) ==
    IF Writers(row, header_map, field) = {} THEN <<>>
    ELSE ValueFrom(row, field, Min(Writers(row, header_map, field)))

\* The value of field when the last header-mapped column writing it decides,
\* and the positional column only without one.
HeaderFirstValue(row, header_map, field) ==
    IF HeaderWriters(row, header_map, field) # {}
    THEN ValueFrom(row, field, Max(HeaderWriters(row, header_map, field)))
    ELSE FirstWriterValue(row, header_map, field)

\* C16: in every entry each field has the value of the first column of its
\* row that writes the field, be that column mapped by the header or by its
\* position; so a column mapped by position never replaces a value a
\* header-mapped column has set.
C16_FirstWriterWins ==
    Extracted =>
        \A i \in 1..Len(ret) : \A field \in TextbookFields :
            ret[i][field] = FirstWriterValue(TitledRows(arg.soup)[i], HeaderMapOf(arg.soup), field)

\* What holds of the entries: a field has the value of the last header-mapped
\* column of its row that writes it, and the value of its positional column
\* when no header-mapped column writes it.
C16_HeaderMappedWins ==
    Extracted =>
        \A i \in 1..Len(ret) : \A field \in TextbookFields :
            ret[i][field] = HeaderFirstValue(TitledRows(arg.soup)[i], HeaderMapOf(arg.soup), field)

\* A row in which a column mapped by position follows a header-mapped column
\* of the same field and holds another text.
C16_PositionalAfterHeader ==
    /\ Extracted
    /\ \E i \in 1..Len(ret) : \E field \in TextbookFields :
        LET row == TitledRows(arg.soup)[i]
            hm  == HeaderMapOf(arg.soup)
        IN  \E h \in HeaderWriters(row, hm, field) :
              \E p \in Writers(row, hm, field) \ HeaderWriters(row, hm, field) :
                  p > h /\ row[p + 1].text # row[h + 1].text

(***************************************************************************)
(* C17, C18: what a pass does to a record (SpecAnnotate).                  *)
(***************************************************************************)

\* A pass has run: arg.records is the list before it, all_records after it.
PassRan == ret.last # "none"

StartsWith(s, prefix) == Len(s) >= Len(prefix) /\ SubSeq(s, 1, Len(prefix)) = prefix

\* What the three kinds of fragment start with.
FragmentStarts == {(* "別名称: " *) <<21029, 21517, 31216, 58, 32>>, (* "複数学部向け: " *) <<35079, 25968, 23398, 37096, 21521, 12369, 58, 32>>, GeneralEducationNote}

StartsWithFragment(s) == \E prefix \in FragmentStarts : StartsWith(s, prefix)

\* What after holds beyond before, which it starts with.
Appended(before, after) == SubSeq(after, Len(before) + 1, Len(after))

\* C17: a pass leaves the list's length and order and every field but note
\* as they were; the note after the pass begins with the note before it; what
\* is appended to a non-empty note begins with the separator " / " and then
\* a fragment, and what is appended to an empty note begins with the
\* fragment itself.
C17_AppendOnlyOnNote ==
    PassRan =>
        /\ Len(all_records) = Len(arg.records)
        /\ \A i \in 1..Len(all_records) :
            /\ [all_records[i] EXCEPT !.note = <<>>] = [arg.records[i] EXCEPT !.note = <<>>]
            /\ StartsWith(all_records[i].note, arg.records[i].note)
            /\ all_records[i].note # arg.records[i].note =>
                  IF arg.records[i].note # <<>>
                  THEN /\ StartsWith(Appended(arg.records[i].note, all_records[i].note), NoteSeparator)
                       /\ StartsWithFragment(Appended(arg.records[i].note \o NoteSeparator,
                                                      all_records[i].note))
                  ELSE StartsWithFragment(all_records[i].note)

\* One pass appended to a note that was not empty and wrote a note that was
\* empty, on two records that keep their places in the list.
C17_Witness ==
    /\ PassRan
    /\ \E i, j \in 1..Len(all_records) :
        /\ i < j
        /\ arg.records[i].course_title # arg.records[j].course_title
        /\ arg.records[i].note = <<>> /\ all_records[i].note # <<>>
        /\ arg.records[j].note # <<>> /\ all_records[j].note # arg.records[j].note

\* The distinct faculty names of a record.
DistinctFaculties(record) == SeqToSet(record.faculty_names)

\* C18: after the faculty-scope pass, a record with more than one distinct
\* faculty name has a note containing the fragment that lists them, a
\* general-education record has a note containing the auto-classification
\* fragment, and a record that is neither has the note it had.
C18_FacultyScopeNotes ==
    ret.last = "annotate_faculty_scope" =>
        \A i \in 1..Len(all_records) :
            /\ Cardinality(DistinctFaculties(arg.records[i])) > 1 =>
                  Contains(all_records[i].note,
                           (* "複数学部向け: " *) <<35079, 25968, 23398, 37096, 21521, 12369, 58, 32>>
                               \o Join((* ", " *) <<44, 32>>, Sorted(DistinctFaculties(arg.records[i]))))
            /\ arg.records[i].course_category = GeneralEducation =>
                  Contains(all_records[i].note, (* "教養・共通科目 (自動判定)" *) <<25945, 39178, 12539, 20849, 36890, 31185, 30446, 32, 40, 33258, 21205, 21028, 23450, 41>>)
            /\ Cardinality(DistinctFaculties(arg.records[i])) <= 1
                    /\ arg.records[i].course_category # GeneralEducation =>
                  all_records[i].note = arg.records[i].note

\* The faculty-scope pass wrote both fragments on a general-education record
\* of several faculties.
C18_Witness ==
    /\ ret.last = "annotate_faculty_scope"
    /\ \E i \in 1..Len(all_records) :
        /\ Cardinality(DistinctFaculties(arg.records[i])) > 1
        /\ arg.records[i].course_category = GeneralEducation
        /\ ~Contains(arg.records[i].note, (* "教養・共通科目 (自動判定)" *) <<25945, 39178, 12539, 20849, 36890, 31185, 30446, 32, 40, 33258, 21205, 21028, 23450, 41>>)
        /\ Contains(all_records[i].note, (* "複数学部向け: 工学部, 法学部, 理学部 / 教養・共通科目 (自動判定)" *) <<35079, 25968, 23398, 37096, 21521, 12369, 58, 32, 24037, 23398, 37096, 44, 32, 27861, 23398, 37096, 44, 32, 29702, 23398, 37096, 32, 47, 32, 25945, 39178, 12539, 20849, 36890, 31185, 30446, 32, 40, 33258, 21205, 21028, 23450, 41>>)

(***************************************************************************)
(* C19: category tag and multi-faculty tag of a record (SpecBuild).        *)
(***************************************************************************)

\* The tags in a record's tag_names.
TagsIn(record) == SeqToSet(Components(record.tag_names))

\* C19: the tag_names of every record of build_records holds exactly one of
\* general-education and faculty-course, the record's course_category; and
\* a record tagged multi-faculty is a faculty-course with exactly two
\* distinct faculty names.
C19_CategoryTagAndMultiFaculty ==
    Built =>
        \A i \in 1..Len(ret.records) :
            /\ TagsIn(ret.records[i]) \cap {GeneralEducation, FacultyCourse}
                  = {ret.records[i].course_category}
            /\ MultiFaculty \in TagsIn(ret.records[i]) =>
                  /\ ret.records[i].course_category = FacultyCourse
                  /\ Cardinality(SeqToSet(ret.records[i].faculty_names)) = 2

\* A general-education record of three distinct faculties, without the
\* multi-faculty tag.
C19_Witness ==
    /\ Built
    /\ \E i \in 1..Len(ret.records) :
        /\ Cardinality(SeqToSet(ret.records[i].faculty_names)) = 3
        /\ ret.records[i].course_category = GeneralEducation
        /\ GeneralEducation \in TagsIn(ret.records[i])
        /\ MultiFaculty \notin TagsIn(ret.records[i])

(***************************************************************************)
(* C20: the data rows of the output file (Spec).                           *)
(***************************************************************************)

MultiValuedColumns == {"instructors", "faculty_names"}

\* The attribute of record that column names, a list as its elements
\* joined by a comma.
AttributeNamed(record, column) ==
    IF column \in MultiValuedColumns THEN Join((* "," *) <<44>>, record[column])
    ELSE record[column]

\* C20: the data rows of the file are those of the records, in order, all
\* of them when write_csv returned; every data row has as many fields as
\* the header row, and the field in each position is the record's attribute
\* the header names in that position, instructors and faculty_names as
\* their elements joined by a comma.
C20_RowsAlignedWithHeader ==
    Written =>
        /\ Len(output.rows) <= Len(all_records)
        /\ pc = "done" => Len(output.rows) = Len(all_records)
        /\ \A i \in 1..Len(output.rows) :
            /\ Len(output.rows[i]) = Len(output.header)
            /\ \A k \in 1..Len(output.header) :
                   output.rows[i][k] = AttributeNamed(all_records[i], output.header[k])

\* A written row whose instructors and faculty_names fields each hold two
\* names and whose campus and note are not empty.
C20_Witness ==
    /\ Written
    /\ \E i \in 1..Len(output.rows) :
        /\ Len(all_records[i].instructors) = 2
        /\ Len(all_records[i].faculty_names) = 2
        /\ output.rows[i][14] = all_records[i].instructors[1] \o (* "," *) <<44>> \o all_records[i].instructors[2]
        /\ output.rows[i][16] # <<>>
        /\ output.rows[i][20] # <<>>

====
